---- MODULE Spec2Model ----
(***************************************************************************)
(* A model of the debug-server execution plane.                            *)
(*                                                                         *)
(*   Spec     the worktree lease state machine: MetadataStore worktree     *)
(*            rows (db/service.py), WorktreePool.acquire_worktree/release  *)
(*            (worktrees/pool.py) and the process WorkerSupervisor spawns  *)
(*            in the leased directory, run by concurrent callers.          *)
(*   SpecSup  the command rows as concurrent WorkerSupervisor.run_command  *)
(*            calls write them (runner/supervisor.py).                     *)
(*   SpecCmd  SpecSup with POST /sessions/{id}/commands                    *)
(*            (api/routers/commands.py) and direct calls of the store's    *)
(*            record_command_result.                                       *)
(*   SpecBroker  the stream brokers (api/streams.py) with their publishing *)
(*            threads and the WebSocket handlers of api/routers/logs.py    *)
(*            and api/routers/debug.py; SpecCancel adds DELETE             *)
(*            /sessions/{id} (api/routers/sessions.py).                    *)
(*   SpecSupFair, SpecBrokerFair and SpecCancel state the fairness of the  *)
(*   program's own threads and event loop, for the liveness claims.        *)
(*   SpecSync one pool acquiring and releasing in sequence with every      *)
(*            environment hash, None included (worktrees/pool.py).         *)
(*   SpecStream  LogStream (runner/log_stream.py): writing threads,        *)
(*            listener callbacks, follow() subscriptions and close.        *)
(*   SpecSession  the status column of the sessions table as the store's   *)
(*            clients and DELETE /sessions/{id} write it.                  *)
(*   SpecToken  the auth_tokens table and MetadataStore.authenticate.      *)
(*   SpecScopes  _has_scopes (api/auth.py) over every pair of scope sets.  *)
(*   SpecHttp  BearerTokenAuth in front of POST /sessions/{id}/commands.   *)
(*   SpecWs   require_websocket_token in front of the two WebSocket        *)
(*            handlers, with the brokers behind them.                      *)
(*   SpecReclaim  one pool acquiring and releasing while                   *)
(*            reclaim_stale_worktrees runs (worktrees/pool.py).            *)
(*   SpecEnv  EnvironmentManager.ensure and its marker file                *)
(*            (runner/environment.py).                                     *)
(*   SpecHash  compute_dependency_hash (worktrees/dependency_sync.py) over *)
(*            every pair of inputs.                                        *)
(*   SpecUpsert  concurrent MetadataStore.upsert_repository calls.         *)
(*   SpecDebug  DebugpyAdapter.start and the tunnel manager                *)
(*            (runner/debuggers).                                          *)
(*   SpecVault  EncryptedStateStore of the client (client/cli/cloud.py)    *)
(*            under a changing operator key.                               *)
(*   SpecDownload  GET /sessions/{id}/artifacts/{aid}                      *)
(*            (api/routers/sessions.py) behind BearerTokenAuth.            *)
(*                                                                         *)
(* Every MetadataStore helper opens its own Session, reads, assigns the    *)
(* attributes in Python and writes them back at commit.  Nothing but the   *)
(* row lock of reserve_worktree's SELECT ... FOR UPDATE SKIP LOCKED stands *)
(* between the read and the write, so each helper that reads a row is two  *)
(* steps here: the read, and the commit.  The SQLite dialect (the default  *)
(* engine, db/session.py) renders no FOR UPDATE clause at all; a           *)
(* client/server database takes the lock.  dialect is chosen in Init.      *)
(***************************************************************************)
EXTENDS Integers, Sequences, FiniteSets

VARIABLES
    dialect,      \* the engine create_engine_from_url built
    now,          \* datetime.now(UTC), in ticks
    worktrees,    \* the worktrees table: row id = index
    nextToken,    \* the next value secrets.token_hex(16) mints
    pc,           \* each caller's position in acquire / run / release
    txn,          \* each caller's open Session: the row it loaded
    lease,        \* each caller's LeaseResult / WorktreeLease
    dirs,         \* the worktree rows whose path exists on disk
    reclaim,      \* the position and locals of reclaim_stale_worktrees
    commands,     \* the commands table: row id = index
    artifacts,    \* the artifacts table
    supSeq,       \* WorkerSupervisor._sequence, per supervisor instance
    rpc,          \* each run_command thread's position
    run,          \* each run_command thread's locals
    storeCalls,   \* record_command_result calls made by other store clients
    sessionStatus, \* the status column of the session the sockets belong to
    history,      \* LogManager._history / DebugBroker._history of the session
    subscribers,  \* LogManager._subscribers / DebugBroker._subscribers
    queue,        \* each WebSocket handler's asyncio.Queue
    loopCalls,    \* the event loop's call_soon_threadsafe callbacks, in order
    pub,          \* each publishing thread's position in append / publish
    ws,           \* each WebSocket handler's position and what it has sent
    eventBy,      \* the thread that published each event (event id = index)
    logFile,      \* the chunks in a LogStream's disk file (chunk id = index)
    handleClosed, \* LogStream._handle.closed
    listeners,    \* LogStream._listeners
    queueListeners, \* LogStream._queue_listeners, in insertion order
    subQueue,     \* every item put in each follow() subscription's Queue
    received,     \* the chunks each listener callback was called with
    writer,       \* each writing thread's position in LogStream.write
    follower,     \* each LogSubscription: its _closed flag and registration
    listenerReg,  \* each listener's registration
    tokens,       \* the auth_tokens table: row id = index
    sessions,     \* the status column of the sessions table
    request,      \* each API client's request in progress and its response
    scopeCheck,   \* a scope check: the token's scopes, the required, the result
    envDirs,      \* EnvironmentManager: the environment directories under root
    stateStore,   \* DependencyStateStore: the fingerprint in each state file
    ensureCall,   \* the last EnvironmentManager.ensure call and what it saw
    hashCheck,    \* two inputs of compute_dependency_hash and their digests
    repositories, \* the repositories table: row id = index
    upsertTxn,    \* each upsert_repository call's open Session
    lastUpsert,   \* per name, the arguments of the last call that committed
    tunnels,      \* DebuggerTunnelManager._tunnels: its (session, kind) keys
    debuggerState, \* the last_event of each session's DebuggerState row
    supervisorCalls, \* the run_command calls the adapter made, in order
    launch,       \* the last DebugpyAdapter.start call and its outcome
    operatorKey,  \* os.environ["DEBUG_SERVER_OPERATOR_KEY"] ("" when unset)
    stateFiles,   \* EncryptedStateStore: the <name>.json.enc files
    savedWith,    \* per name, the payload and operator key of the last save
    loadCall,     \* the last EncryptedStateStore.load call and its outcome
    artifactFiles,\* the artifact paths that exist on disk
    download      \* the last GET /sessions/{id}/artifacts/{aid} and its response

vars == <<dialect, now, worktrees, nextToken, pc, txn, lease, dirs, reclaim,
          commands, artifacts, supSeq, rpc, run, storeCalls,
          sessionStatus, history, subscribers, queue, loopCalls, pub, ws,
          eventBy,
          logFile, handleClosed, listeners, queueListeners, subQueue, received,
          writer, follower, listenerReg,
          tokens, sessions, request, scopeCheck,
          envDirs, stateStore, ensureCall, hashCheck,
          repositories, upsertTxn, lastUpsert,
          tunnels, debuggerState, supervisorCalls, launch,
          operatorKey, stateFiles, savedWith, loadCall,
          artifactFiles, download>>

leaseVars == <<dialect, now, worktrees, nextToken, pc, txn, lease, dirs,
               reclaim>>
cmdVars == <<commands, artifacts, supSeq, rpc, run, storeCalls>>
brokerVars == <<sessionStatus, history, subscribers, queue, loopCalls, pub, ws,
                eventBy>>
streamVars == <<logFile, handleClosed, listeners, queueListeners, subQueue,
                received, writer, follower, listenerReg>>
apiVars == <<tokens, sessions, request, scopeCheck>>
envVars == <<envDirs, stateStore, ensureCall>>
repoVars == <<repositories, upsertTxn, lastUpsert>>
debugVars == <<tunnels, debuggerState, supervisorCalls, launch>>
vaultVars == <<operatorKey, stateFiles, savedWith, loadCall>>
downloadVars == <<artifactFiles, download>>
toolVars == <<envVars, hashCheck, repoVars, debugVars, vaultVars, downloadVars>>

(***************************************************************************)
(* Bounds of the model and program constants.                              *)
(***************************************************************************)
NULL == -1
MaxTime == 2
MaxTokens == 2
MaxWorktrees == 1
LeaseTtl == 1
PoolRepository == 1
Callers == {1, 2}
Commits == {1}
EnvHashes == {1}
RequestedHashes == {NULL, 1, 2}
IdleAges == {1, 2}
EnvNames == {<<"d">>, <<" ", "d">>, <<"a", "/", "b">>, <<"a", "_", "b">>}
Fingerprints == {1, 2}
MaxLaunches == 2
FERNET_KEY_BYTES == 32
MaxArtifacts == 2
ArtifactPaths == {1, 2}
HTTP_200_OK == 200
StackNames == {"stack"}
OperatorKeys == {<<"k">>, <<"k", "0">>, <<"w">>}
StatePayloads == {{<<"example", "true">>},
                  {<<"example", "true">>, <<"broken", "false">>}}
LaunchTargets == {"", "app"}
RepoNames == {"demo", "repo"}
RemoteUrls == {"repo.git", "fork.git"}
Branches == {"main", "develop"}
FileNames == {<<"a">>, <<"a", "1">>}
FileBytes == {<<>>, <<"1">>}
Mtimes == {1, 11}
MetaKeys == {<<"k">>, <<"k", "v">>}
MetaValues == {<<"v">>, <<"v", "v">>}
SequentialCallers == {1}
MaxCommands == 2
MaxStoreCalls == 1
Sessions == {1, 2}
Supervisors == {1, 2}
Threads == {1, 2}
ExitCodes == {0, 1}
MaxEvents == 2
HistoryLimit == 1
QueueHighWater == 1
Brokers == {"logs", "debug"}
Handlers == {1, 2}
Publishers == {1, 2}
MaxChunks == 2
SENTINEL == 0
StreamWriters == {1, 2}
Followers == {1, 2}
ListenerIds == {1}
Clients == {1, 2}
TokenNames == {"ops", "cli"}
ScopeNames == {"admin", "sessions:read", "sessions:write", "commands:write",
               "artifacts:read"}
HTTP_401_UNAUTHORIZED == 401
HTTP_403_FORBIDDEN == 403
HTTP_404_NOT_FOUND == 404
HTTP_201_CREATED == 201
WS_1008_POLICY_VIOLATION == 1008
Secrets == {1, 2, 3}
TokenExpiries == {NULL, 1}
CommandStatuses == {"PENDING", "RUNNING", "SUCCEEDED", "FAILED", "CANCELLED"}
SessionStatuses == {"PENDING", "RUNNING", "COMPLETED", "FAILED", "CANCELLED"}
TerminalStatuses == {"SUCCEEDED", "FAILED", "CANCELLED"}

(***************************************************************************)
(* Worktree rows (db/models.py, Worktree).                                 *)
(***************************************************************************)
NewWorktree(repository_id, t) ==
    [repository_id |-> repository_id, status |-> "IDLE",
     lease_owner |-> NULL, lease_token |-> NULL,
     leased_at |-> NULL, lease_expires_at |-> NULL,
     version |-> 1, updated_at |-> t,
     commit_sha |-> NULL, environment_hash |-> NULL]

BlankRow ==
    [repository_id |-> NULL, status |-> "NONE",
     lease_owner |-> NULL, lease_token |-> NULL,
     leased_at |-> NULL, lease_expires_at |-> NULL,
     version |-> NULL, updated_at |-> NULL,
     commit_sha |-> NULL, environment_hash |-> NULL]

NoTxn == [wid |-> NULL, at |-> NULL, loaded |-> BlankRow]
NoReclaim == [pc |-> "idle", now |-> NULL, max_idle_age |-> NULL,
              listed |-> <<>>]
NoLease == [wid |-> NULL, lease_token |-> NULL, leased_at |-> NULL,
            lease_expires_at |-> NULL, stored_environment_hash |-> NULL,
            environment_hash |-> NULL, needs_dependency_sync |-> FALSE]

WorktreeIds == 1..Len(worktrees)

\* The unit of work's UPDATE at commit: the ORM writes the attributes whose
\* assigned value differs from the value it loaded, and no other column.
Flush(current, loaded, assigned) ==
    [f \in DOMAIN current |->
        IF f \in DOMAIN assigned /\ assigned[f] # loaded[f]
        THEN assigned[f] ELSE current[f]]

\* SELECT ... FOR UPDATE: the row lock a reserving transaction holds from its
\* SELECT to its COMMIT.  The SQLite compiler emits no FOR UPDATE.
LockedByOther(w, p) ==
    /\ dialect = "postgresql"
    /\ \E q \in Callers \ {p} : pc[q] = "reserving" /\ txn[q].wid = w

\* The WHERE clause of reserve_worktree.
NoReclaimPredicate(row, repository_id, t) ==
    /\ row.repository_id = repository_id
    /\ row.status = "IDLE"

ReservePredicate(row, repository_id, t) ==
    /\ row.repository_id = repository_id
    /\ \/ row.status = "IDLE"
       \/ /\ row.lease_expires_at # NULL
          /\ row.lease_expires_at < t

\* ORDER BY updated_at ... SKIP LOCKED ... first(): a row with the least
\* updated_at among the matching, unlocked rows (ties in the engine's order).
ReserveCandidates(p, t) ==
    LET match == {w \in WorktreeIds :
                     /\ ReservePredicate(worktrees[w], PoolRepository, t)
                     /\ ~LockedByOther(w, p)}
    IN {w \in match :
           \A v \in match : worktrees[w].updated_at <= worktrees[v].updated_at}

\* Callers working in the directory of worktree w: git checkout in acquire,
\* the spawned command, git reset/clean in release.
Operating(p, w) ==
    /\ lease[p].wid = w
    /\ pc[p] \in {"leased", "running", "cleaning"}

(***************************************************************************)
(* MetadataStore.reserve_worktree, as WorktreePool.acquire_worktree calls  *)
(* it (first attempt from "idle", second attempt from "retry").            *)
(***************************************************************************)
ReserveSelect(p) ==
    /\ pc[p] \in {"idle", "retry"}
    /\ nextToken <= MaxTokens
    /\ LET cands == ReserveCandidates(p, now)
       IN IF cands = {}
          THEN \* MetadataError("No worktree available for reservation")
               /\ pc' = [pc EXCEPT ![p] =
                            IF pc[p] = "idle" THEN "no_worktree" ELSE "idle"]
               /\ txn' = txn
          ELSE \E w \in cands :
                 /\ txn' = [txn EXCEPT ![p] =
                              [wid |-> w, at |-> now, loaded |-> worktrees[w]]]
                 /\ pc' = [pc EXCEPT ![p] = "reserving"]
    /\ UNCHANGED <<dialect, now, worktrees, nextToken, lease>>
    /\ UNCHANGED <<dirs, reclaim, toolVars, cmdVars, brokerVars, streamVars,
                 apiVars>>

ReserveCommit(p) ==
    /\ pc[p] = "reserving"
    /\ LET w == txn[p].wid
           t == txn[p].at
           assigned == [status |-> "RESERVED", lease_owner |-> p,
                        lease_token |-> nextToken, leased_at |-> t,
                        lease_expires_at |-> t + LeaseTtl,
                        version |-> txn[p].loaded.version + 1,
                        updated_at |-> t]
       IN /\ worktrees' = [worktrees EXCEPT
                             ![w] = Flush(worktrees[w], txn[p].loaded, assigned)]
          /\ lease' = [lease EXCEPT ![p] =
                         [NoLease EXCEPT
                            !.wid = w, !.lease_token = nextToken,
                            !.leased_at = t, !.lease_expires_at = t + LeaseTtl,
                            \* session.refresh(worktree): the row as stored
                            !.stored_environment_hash =
                                worktrees[w].environment_hash]]
    /\ nextToken' = nextToken + 1
    /\ txn' = [txn EXCEPT ![p] = NoTxn]
    /\ pc' = [pc EXCEPT ![p] = "leased"]
    /\ UNCHANGED <<dialect, now>>
    /\ UNCHANGED <<dirs, reclaim, toolVars, cmdVars, brokerVars, streamVars,
                 apiVars>>

(***************************************************************************)
(* WorktreePool._create_worktree_record, after the first reserve raised.   *)
(***************************************************************************)
ListWorktrees(p) ==
    /\ pc[p] = "no_worktree"
    /\ LET existing == {w \in WorktreeIds :
                           worktrees[w].repository_id = PoolRepository}
       IN pc' = [pc EXCEPT ![p] =
                    IF Cardinality(existing) >= MaxWorktrees
                    THEN "idle"        \* WorktreePoolError: capacity exhausted
                    ELSE "registering"]
    /\ UNCHANGED <<dialect, now, worktrees, nextToken, txn, lease>>
    /\ UNCHANGED <<dirs, reclaim, toolVars, cmdVars, brokerVars, streamVars,
                 apiVars>>

RegisterWorktree(p) ==
    /\ pc[p] = "registering"
    /\ worktrees' = Append(worktrees, NewWorktree(PoolRepository, now))
    /\ pc' = [pc EXCEPT ![p] = "retry"]
    /\ UNCHANGED <<dialect, now, nextToken, txn, lease>>
    /\ UNCHANGED <<dirs, reclaim, toolVars, cmdVars, brokerVars, streamVars,
                 apiVars>>

(***************************************************************************)
(* The rest of WorktreePool.acquire_worktree: the checkout in the leased   *)
(* directory, then the metadata update.                                    *)
(***************************************************************************)
\* A git command fails: _run_git raises WorktreePoolError, which leaves
\* acquire_worktree with the row still reserved.
CheckoutFails(p) ==
    /\ pc[p] = "leased"
    /\ pc' = [pc EXCEPT ![p] = "idle"]
    /\ lease' = [lease EXCEPT ![p] = NoLease]
    \* the failing command is the clone, or one that comes after it
    /\ dirs' \in {dirs, dirs \cup {lease[p].wid}}
    /\ UNCHANGED <<dialect, now, worktrees, nextToken, txn>>
    /\ UNCHANGED <<reclaim, toolVars, cmdVars, brokerVars, streamVars, apiVars>>

\* MetadataStore.update_worktree_metadata(id, commit_sha, environment_hash).
UpdateWorktreeMetadata(w, commit_sha, environment_hash) ==
    [worktrees EXCEPT ![w] =
        [@ EXCEPT !.commit_sha = commit_sha,
                  !.environment_hash = environment_hash,
                  !.version = @ + 1,
                  !.updated_at = now]]

\* needs_sync, from the hash of the row reserve_worktree returned.
NeedsDependencySync(stored, environment_hash) ==
    /\ environment_hash # NULL
    /\ stored # environment_hash

\* _prepare_checkout returns and the acquired lease is handed to the caller.
AcquireReturn(p, commit_sha, environment_hash) ==
    /\ pc[p] = "leased"
    /\ ~LockedByOther(lease[p].wid, p)
    /\ worktrees' = UpdateWorktreeMetadata(lease[p].wid, commit_sha,
                                           environment_hash)
    /\ lease' = [lease EXCEPT ![p] =
                   [@ EXCEPT !.environment_hash = environment_hash,
                             !.needs_dependency_sync =
                                 NeedsDependencySync(
                                     lease[p].stored_environment_hash,
                                     environment_hash)]]
    /\ dirs' = dirs \cup {lease[p].wid}
    /\ pc' = [pc EXCEPT ![p] = "ready"]
    /\ UNCHANGED <<dialect, now, nextToken, txn>>
    /\ UNCHANGED <<reclaim, toolVars, cmdVars, brokerVars, streamVars, apiVars>>

AcquireUpdateMetadata(p) ==
    \E c \in Commits, e \in EnvHashes : AcquireReturn(p, c, e)

(***************************************************************************)
(* WorkerSupervisor.run_command under the lease: the process runs with     *)
(* cwd = lease.path until it exits.                                        *)
(***************************************************************************)
SpawnInWorkspace(p) ==
    /\ pc[p] = "ready"
    /\ pc' = [pc EXCEPT ![p] = "running"]
    /\ UNCHANGED <<dialect, now, worktrees, nextToken, txn, lease>>
    /\ UNCHANGED <<dirs, reclaim, toolVars, cmdVars, brokerVars, streamVars,
                 apiVars>>

ProcessExit(p) ==
    /\ pc[p] = "running"
    /\ pc' = [pc EXCEPT ![p] = "ready"]
    /\ UNCHANGED <<dialect, now, worktrees, nextToken, txn, lease>>
    /\ UNCHANGED <<dirs, reclaim, toolVars, cmdVars, brokerVars, streamVars,
                 apiVars>>

(***************************************************************************)
(* WorktreePool.release: git reset --hard / clean -fdx in the directory,   *)
(* then MetadataStore.release_worktree (read, compare, commit).            *)
(***************************************************************************)
ReleaseClean(p) ==
    /\ pc[p] = "ready"
    /\ pc' = [pc EXCEPT ![p] = "cleaning"]
    /\ UNCHANGED <<dialect, now, worktrees, nextToken, txn, lease>>
    /\ UNCHANGED <<dirs, reclaim, toolVars, cmdVars, brokerVars, streamVars,
                 apiVars>>

ReleaseRead(p) ==
    /\ pc[p] = "cleaning"
    /\ LET w == lease[p].wid
       IN IF worktrees[w].lease_token # lease[p].lease_token
          THEN \* MetadataError("Lease token mismatch")
               /\ pc' = [pc EXCEPT ![p] = "idle"]
               /\ lease' = [lease EXCEPT ![p] = NoLease]
               /\ txn' = txn
          ELSE /\ pc' = [pc EXCEPT ![p] = "releasing"]
               /\ txn' = [txn EXCEPT ![p] =
                            [wid |-> w, at |-> now, loaded |-> worktrees[w]]]
               /\ lease' = lease
    /\ UNCHANGED <<dialect, now, worktrees, nextToken>>
    /\ UNCHANGED <<dirs, reclaim, toolVars, cmdVars, brokerVars, streamVars,
                 apiVars>>

ReleaseCommit(p) ==
    /\ pc[p] = "releasing"
    /\ ~LockedByOther(txn[p].wid, p)
    /\ LET w == txn[p].wid
           assigned == [status |-> "IDLE", lease_owner |-> NULL,
                        lease_token |-> NULL, leased_at |-> NULL,
                        lease_expires_at |-> NULL,
                        version |-> txn[p].loaded.version + 1,
                        updated_at |-> now]
       IN worktrees' = [worktrees EXCEPT
                          ![w] = Flush(worktrees[w], txn[p].loaded, assigned)]
    /\ txn' = [txn EXCEPT ![p] = NoTxn]
    /\ lease' = [lease EXCEPT ![p] = NoLease]
    /\ pc' = [pc EXCEPT ![p] = "idle"]
    /\ UNCHANGED <<dialect, now, nextToken>>
    /\ UNCHANGED <<dirs, reclaim, toolVars, cmdVars, brokerVars, streamVars,
                 apiVars>>

Tick ==
    /\ now < MaxTime
    /\ now' = now + 1
    /\ UNCHANGED <<dialect, worktrees, nextToken, pc, txn, lease>>
    /\ UNCHANGED <<dirs, reclaim, toolVars, cmdVars, brokerVars, streamVars,
                 apiVars>>

(***************************************************************************)
(* WorktreePool.reclaim_stale_worktrees: now and the listing are taken     *)
(* once; each listed row is then judged from the listing, its directory    *)
(* removed and its metadata nulled in a transaction of its own.            *)
(***************************************************************************)
\* list_worktrees(repository_id): the rows as they are when listed.
ListedRows(repository_id) ==
    SelectSeq([w \in WorktreeIds |->
                  [wid |-> w, repository_id |-> worktrees[w].repository_id,
                   status |-> worktrees[w].status,
                   updated_at |-> worktrees[w].updated_at]],
              LAMBDA row : row.repository_id = repository_id)

\* The two "continue" tests of the loop, negated.
Stale(row, t, max_idle_age) ==
    /\ row.status = "IDLE"
    /\ row.updated_at # NULL
    /\ ~(row.updated_at + max_idle_age > t)

ReclaimList(max_idle_age) ==
    /\ reclaim.pc = "idle"
    /\ reclaim' = [pc |-> "scanning", now |-> now,
                   max_idle_age |-> max_idle_age,
                   listed |-> ListedRows(PoolRepository)]
    /\ UNCHANGED <<dialect, now, worktrees, nextToken, pc, txn, lease, dirs>>
    /\ UNCHANGED <<toolVars, cmdVars, brokerVars, streamVars, apiVars>>

ReclaimSkip ==
    /\ reclaim.pc = "scanning"
    /\ reclaim.listed # <<>>
    /\ ~Stale(Head(reclaim.listed), reclaim.now, reclaim.max_idle_age)
    /\ reclaim' = [reclaim EXCEPT !.listed = Tail(@)]
    /\ UNCHANGED <<dialect, now, worktrees, nextToken, pc, txn, lease, dirs>>
    /\ UNCHANGED <<toolVars, cmdVars, brokerVars, streamVars, apiVars>>

\* if path.exists(): shutil.rmtree(path)
ReclaimRemove ==
    /\ reclaim.pc = "scanning"
    /\ reclaim.listed # <<>>
    /\ Stale(Head(reclaim.listed), reclaim.now, reclaim.max_idle_age)
    /\ dirs' = dirs \ {Head(reclaim.listed).wid}
    /\ reclaim' = [reclaim EXCEPT !.pc = "updating"]
    /\ UNCHANGED <<dialect, now, worktrees, nextToken, pc, txn, lease>>
    /\ UNCHANGED <<toolVars, cmdVars, brokerVars, streamVars, apiVars>>

ReclaimUpdate ==
    /\ reclaim.pc = "updating"
    /\ ~LockedByOther(Head(reclaim.listed).wid, NULL)
    /\ worktrees' = UpdateWorktreeMetadata(Head(reclaim.listed).wid,
                                           NULL, NULL)
    /\ reclaim' = [reclaim EXCEPT !.pc = "scanning", !.listed = Tail(@)]
    /\ UNCHANGED <<dialect, now, nextToken, pc, txn, lease, dirs>>
    /\ UNCHANGED <<toolVars, cmdVars, brokerVars, streamVars, apiVars>>

ReclaimReturn ==
    /\ reclaim.pc = "scanning"
    /\ reclaim.listed = <<>>
    /\ reclaim' = NoReclaim
    /\ UNCHANGED <<dialect, now, worktrees, nextToken, pc, txn, lease, dirs>>
    /\ UNCHANGED <<toolVars, cmdVars, brokerVars, streamVars, apiVars>>

(***************************************************************************)
(* Initial state and the lease specification.                              *)
(***************************************************************************)
InitLease ==
    /\ dialect \in {"sqlite", "postgresql"}
    /\ now = 0
    /\ worktrees = <<>>
    /\ nextToken = 1
    /\ pc = [p \in Callers |-> "idle"]
    /\ txn = [p \in Callers |-> NoTxn]
    /\ lease = [p \in Callers |-> NoLease]
    /\ dirs = {}
    /\ reclaim = NoReclaim

NoRun == [sup |-> NULL, session_id |-> NULL, sequence |-> NULL,
          cid |-> NULL, status |-> "NONE", exit_code |-> NULL,
          outcome |-> "NONE", pipes_held |-> FALSE]

InitCmd ==
    /\ commands = <<>>
    /\ artifacts = <<>>
    /\ supSeq = [s \in Supervisors |-> [x \in Sessions |-> 0]]
    /\ rpc = [t \in Threads |-> "idle"]
    /\ run = [t \in Threads |-> NoRun]
    /\ storeCalls = 0

NoSocket == [pc |-> "new", broker |-> "none", connected |-> FALSE,
             snapshot |-> <<>>, sent |-> <<>>]
NoPublish == [pc |-> "idle", broker |-> "none", event |-> NULL,
              targets |-> <<>>]

InitBroker ==
    /\ sessionStatus = "RUNNING"
    /\ history = [k \in Brokers |-> <<>>]
    /\ subscribers = [k \in Brokers |-> <<>>]
    /\ queue = [h \in Handlers |-> <<>>]
    /\ loopCalls = <<>>
    /\ pub = [t \in Publishers |-> NoPublish]
    /\ ws = [h \in Handlers |-> NoSocket]
    /\ eventBy = <<>>

NoWrite == [pc |-> "idle", chunk |-> NULL, listeners |-> <<>>, queues |-> <<>>]
NoRegistration == [state |-> "none", regAt |-> NULL, remAt |-> NULL,
                   closed |-> FALSE]

InitStream ==
    /\ logFile = <<>>
    /\ handleClosed = FALSE
    /\ listeners = <<>>
    /\ queueListeners = <<>>
    /\ subQueue = [s \in Followers |-> <<>>]
    /\ received = [l \in ListenerIds |-> <<>>]
    /\ writer = [w \in StreamWriters |-> NoWrite]
    /\ follower = [s \in Followers |-> NoRegistration]
    /\ listenerReg = [l \in ListenerIds |-> NoRegistration]

NoRequest == [pc |-> "idle", endpoint |-> "none", raw |-> NULL, tid |-> NULL,
              at |-> NULL, status |-> NULL, session |-> NULL]
NoSession == [status |-> "NONE", completed_at |-> NULL]

NoCheck == [token_scopes |-> {}, required |-> {}, result |-> "none",
            status |-> NULL]

InitTables ==
    /\ tokens = <<>>
    /\ sessions = [x \in Sessions |-> NoSession]
    /\ request = [c \in Clients |-> NoRequest]

InitApi == InitTables /\ scopeCheck = NoCheck

NoEnsure == [turn |-> 0, name |-> <<>>, fingerprint |-> NULL, force |-> FALSE,
             existed |-> FALSE, cached |-> NULL, rebuilt |-> FALSE]

InitEnv ==
    /\ envDirs = {}
    /\ stateStore = {}
    /\ ensureCall = NoEnsure

NoInput == [manifests |-> <<>>, extra_inputs |-> {}]
NoHash == [left |-> NoInput, right |-> NoInput, done |-> FALSE,
           digests |-> <<>>]

NoUpsert == [pc |-> "idle", name |-> NULL, remote_url |-> NULL,
             default_branch |-> NULL, id |-> NULL, loaded |-> NULL,
             outcome |-> "none"]

InitRepositories ==
    /\ repositories = <<>>
    /\ upsertTxn = [c \in Clients |-> NoUpsert]
    /\ lastUpsert = [n \in RepoNames |->
                       [remote_url |-> "none", default_branch |-> "none"]]

NoLaunch == [turn |-> 0, session_id |-> NULL, module |-> "", script |-> "",
             outcome |-> "none"]

InitDebug ==
    /\ tunnels = {}
    /\ debuggerState = [x \in Sessions |-> "none"]
    /\ supervisorCalls = <<>>
    /\ launch = NoLaunch

NoFile == [key |-> <<>>, data |-> <<>>]
NoSave == [payload |-> {}, key |-> <<>>]
NoLoad == [turn |-> 0, name |-> "none", outcome |-> "none", payload |-> {}]

InitVault ==
    /\ operatorKey = <<>>
    /\ stateFiles = [n \in StackNames |-> NoFile]
    /\ savedWith = [n \in StackNames |-> NoSave]
    /\ loadCall = NoLoad

NoDownload == [turn |-> 0, session_id |-> NULL, artifact_id |-> NULL,
               status |-> NULL, detail |-> "none", file |-> NULL]

InitDownload ==
    /\ artifactFiles = {}
    /\ download = NoDownload

InitTools ==
    /\ InitEnv /\ hashCheck = NoHash /\ InitRepositories /\ InitDebug
    /\ InitVault /\ InitDownload

Init ==
    InitLease /\ InitCmd /\ InitBroker /\ InitStream /\ InitApi /\ InitTools

Next ==
    \/ \E p \in Callers : ReserveSelect(p)
    \/ \E p \in Callers : ReserveCommit(p)
    \/ \E p \in Callers : ListWorktrees(p)
    \/ \E p \in Callers : RegisterWorktree(p)
    \/ \E p \in Callers : CheckoutFails(p)
    \/ \E p \in Callers : AcquireUpdateMetadata(p)
    \/ \E p \in Callers : SpawnInWorkspace(p)
    \/ \E p \in Callers : ProcessExit(p)
    \/ \E p \in Callers : ReleaseClean(p)
    \/ \E p \in Callers : ReleaseRead(p)
    \/ \E p \in Callers : ReleaseCommit(p)
    \/ Tick

Spec == Init /\ [][Next]_vars

(***************************************************************************)
(* One pool acquiring and releasing in sequence, with every environment    *)
(* hash acquire_worktree accepts: None, or one of two hashes.              *)
(***************************************************************************)
AcquireAnyEnvironment(p) ==
    \E c \in Commits, e \in RequestedHashes : AcquireReturn(p, c, e)

NextSync ==
    \/ \E p \in SequentialCallers : ReserveSelect(p)
    \/ \E p \in SequentialCallers : ReserveCommit(p)
    \/ \E p \in SequentialCallers : ListWorktrees(p)
    \/ \E p \in SequentialCallers : RegisterWorktree(p)
    \/ \E p \in SequentialCallers : CheckoutFails(p)
    \/ \E p \in SequentialCallers : AcquireAnyEnvironment(p)
    \/ \E p \in SequentialCallers : ReleaseClean(p)
    \/ \E p \in SequentialCallers : ReleaseRead(p)
    \/ \E p \in SequentialCallers : ReleaseCommit(p)
    \/ Tick

SpecSync == Init /\ [][NextSync]_vars

(***************************************************************************)
(* One pool acquiring and releasing while the maintenance job runs         *)
(* reclaim_stale_worktrees on the same repository.                         *)
(***************************************************************************)
NextReclaim ==
    \/ \E p \in SequentialCallers : ReserveSelect(p)
    \/ \E p \in SequentialCallers : ReserveCommit(p)
    \/ \E p \in SequentialCallers : ListWorktrees(p)
    \/ \E p \in SequentialCallers : RegisterWorktree(p)
    \/ \E p \in SequentialCallers : CheckoutFails(p)
    \/ \E p \in SequentialCallers : AcquireUpdateMetadata(p)
    \/ \E p \in SequentialCallers : ReleaseClean(p)
    \/ \E p \in SequentialCallers : ReleaseRead(p)
    \/ \E p \in SequentialCallers : ReleaseCommit(p)
    \/ \E a \in IdleAges : ReclaimList(a)
    \/ ReclaimSkip
    \/ ReclaimRemove
    \/ ReclaimUpdate
    \/ ReclaimReturn
    \/ Tick

SpecReclaim == Init /\ [][NextReclaim]_vars

(***************************************************************************)
(* Command rows (db/models.py, Command) and the store's command helpers.   *)
(***************************************************************************)
CommandIds == 1..Len(commands)

SessionCommands(x) == {c \in CommandIds : commands[c].session_id = x}

\* MetadataStore.create_command: a PENDING row with the caller's sequence.
CreateCommand(session_id, sequence) ==
    Append(commands, [session_id |-> session_id, sequence |-> sequence,
                      status |-> "PENDING", exit_code |-> NULL,
                      log_path |-> NULL])

\* MetadataStore.record_command_result: the row takes the given status,
\* exit code and log path, whatever its status was.
RecordCommandResult(command_id, status, exit_code, log_path) ==
    [commands EXCEPT ![command_id] =
        [@ EXCEPT !.status = status, !.exit_code = exit_code,
                  !.log_path = log_path]]

\* MetadataStore.next_command_sequence: one past the session's last sequence.
NextCommandSequence(x) ==
    IF SessionCommands(x) = {} THEN 0
    ELSE 1 + (CHOOSE m \in {commands[c].sequence : c \in SessionCommands(x)} :
                 \A c \in SessionCommands(x) : commands[c].sequence <= m)

\* Rows a started run_command call will still create.
PendingCreates == Cardinality({t \in Threads : rpc[t] = "sequenced"})

(***************************************************************************)
(* POST /sessions/{id}/commands.                                           *)
(***************************************************************************)
QueueCommand(x) ==
    /\ Len(commands) + PendingCreates < MaxCommands
    /\ commands' = CreateCommand(x, NextCommandSequence(x))
    /\ UNCHANGED <<artifacts, supSeq, rpc, run, storeCalls>>
    /\ UNCHANGED <<leaseVars, toolVars, brokerVars, streamVars, apiVars>>

(***************************************************************************)
(* WorkerSupervisor.run_command on supervisor instance s, by thread t.     *)
(***************************************************************************)
\* The patch applied after the sequence number was taken.
PatchAfterSequence(t, s, x) ==
    /\ rpc[t] = "idle"
    /\ run' = [run EXCEPT ![t] = [NoRun EXCEPT
                                    !.sup = s, !.session_id = x,
                                    !.outcome = "PatchApplicationError"]]
    /\ supSeq' = [supSeq EXCEPT ![s][x] = @ + 1]
    /\ rpc' = [rpc EXCEPT ![t] = "patch_failed"]
    /\ UNCHANGED <<commands, artifacts, storeCalls>>
    /\ UNCHANGED <<leaseVars, toolVars, brokerVars, streamVars, apiVars>>

\* _apply_patch: git apply fails and PatchApplicationError leaves run_command
\* before anything else of it has run.
ApplyPatchFails(t, s, x) ==
    /\ rpc[t] = "idle"
    /\ run' = [run EXCEPT ![t] = [NoRun EXCEPT
                                    !.sup = s, !.session_id = x,
                                    !.outcome = "PatchApplicationError"]]
    /\ rpc' = [rpc EXCEPT ![t] = "patch_failed"]
    /\ UNCHANGED <<commands, artifacts, supSeq, storeCalls>>
    /\ UNCHANGED <<leaseVars, toolVars, brokerVars, streamVars, apiVars>>

\* The caller of run_command receives the PatchApplicationError.
PatchErrorRaised(t) ==
    /\ rpc[t] = "patch_failed"
    /\ rpc' = [rpc EXCEPT ![t] = "idle"]
    /\ run' = [run EXCEPT ![t] = NoRun]
    /\ UNCHANGED <<commands, artifacts, supSeq, storeCalls>>
    /\ UNCHANGED <<leaseVars, toolVars, brokerVars, streamVars, apiVars>>

\* No patch, or the patch applied: _next_sequence, under _sequence_lock.
NextSequence(t, s, x) ==
    /\ rpc[t] = "idle"
    /\ Len(commands) + PendingCreates < MaxCommands
    /\ run' = [run EXCEPT ![t] = [NoRun EXCEPT !.sup = s, !.session_id = x,
                                               !.sequence = supSeq[s][x]]]
    /\ supSeq' = [supSeq EXCEPT ![s][x] = @ + 1]
    /\ rpc' = [rpc EXCEPT ![t] = "sequenced"]
    /\ UNCHANGED <<commands, artifacts, storeCalls>>
    /\ UNCHANGED <<leaseVars, toolVars, brokerVars, streamVars, apiVars>>

RunCreateCommand(t) ==
    /\ rpc[t] = "sequenced"
    /\ commands' = CreateCommand(run[t].session_id, run[t].sequence)
    /\ run' = [run EXCEPT ![t].cid = Len(commands) + 1]
    /\ rpc' = [rpc EXCEPT ![t] = "created"]
    /\ UNCHANGED <<artifacts, supSeq, storeCalls>>
    /\ UNCHANGED <<leaseVars, toolVars, brokerVars, streamVars, apiVars>>

RecordRunning(t) ==
    /\ rpc[t] = "created"
    /\ commands' = RecordCommandResult(run[t].cid, "RUNNING", NULL, run[t].cid)
    /\ rpc' = [rpc EXCEPT ![t] = "spawning"]
    /\ UNCHANGED <<artifacts, supSeq, run, storeCalls>>
    /\ UNCHANGED <<leaseVars, toolVars, brokerVars, streamVars, apiVars>>

\* _spawn_and_stream: Popen raises OSError; run_command's except branch.
SpawnFails(t) ==
    /\ rpc[t] = "spawning"
    /\ run' = [run EXCEPT ![t].status = "FAILED", ![t].exit_code = NULL,
                          ![t].outcome = "spawn_failed"]
    /\ rpc' = [rpc EXCEPT ![t] = "completing"]
    /\ UNCHANGED <<commands, artifacts, supSeq, storeCalls>>
    /\ UNCHANGED <<leaseVars, toolVars, brokerVars, streamVars, apiVars>>

\* Every exit of the process taken for a success.
ExitAlwaysSucceeds(t, code) ==
    /\ rpc[t] = "spawning"
    /\ \E held \in BOOLEAN :
         run' = [run EXCEPT
                   ![t].status = "SUCCEEDED",
                   ![t].exit_code = code,
                   ![t].outcome = "exited",
                   ![t].pipes_held = held]
    /\ rpc' = [rpc EXCEPT ![t] = "joining"]
    /\ UNCHANGED <<commands, artifacts, supSeq, storeCalls>>
    /\ UNCHANGED <<leaseVars, toolVars, brokerVars, streamVars, apiVars>>

\* _spawn_and_stream: process.wait returns the exit code.  The pipes stay
\* open afterwards (pipes_held) when a descendant of the process still holds
\* their write ends.
ProcessExits(t, code) ==
    /\ rpc[t] = "spawning"
    /\ \E held \in BOOLEAN :
         run' = [run EXCEPT
                   ![t].status = IF code = 0 THEN "SUCCEEDED" ELSE "FAILED",
                   ![t].exit_code = code,
                   ![t].outcome = "exited",
                   ![t].pipes_held = held]
    /\ rpc' = [rpc EXCEPT ![t] = "joining"]
    /\ UNCHANGED <<commands, artifacts, supSeq, storeCalls>>
    /\ UNCHANGED <<leaseVars, toolVars, brokerVars, streamVars, apiVars>>

\* _spawn_and_stream: spec.timeout is a number and process.wait raises
\* TimeoutExpired; process.kill() ends the process itself and the stderr line
\* is written to the log.
TimeoutExpires(t) ==
    /\ rpc[t] = "spawning"
    /\ \E held \in BOOLEAN :
         run' = [run EXCEPT ![t].status = "CANCELLED", ![t].exit_code = NULL,
                            ![t].outcome = "timeout",
                            ![t].pipes_held = held]
    /\ rpc' = [rpc EXCEPT ![t] = "joining"]
    /\ UNCHANGED <<commands, artifacts, supSeq, storeCalls>>
    /\ UNCHANGED <<leaseVars, toolVars, brokerVars, streamVars, apiVars>>

\* _spawn_and_stream, finally: thread.join() on the two pump threads, which
\* read each pipe until end of file.
PumpsJoin(t) ==
    /\ rpc[t] = "joining"
    /\ ~run[t].pipes_held
    /\ rpc' = [rpc EXCEPT ![t] = "completing"]
    /\ UNCHANGED <<commands, artifacts, supSeq, run, storeCalls>>
    /\ UNCHANGED <<leaseVars, toolVars, brokerVars, streamVars, apiVars>>

\* The descendants holding the pipes exit, if they ever do.
DescendantsExit(t) ==
    /\ rpc[t] = "joining"
    /\ run[t].pipes_held
    /\ run' = [run EXCEPT ![t].pipes_held = FALSE]
    /\ UNCHANGED <<commands, artifacts, supSeq, rpc, storeCalls>>
    /\ UNCHANGED <<leaseVars, toolVars, brokerVars, streamVars, apiVars>>

\* _record_completion, first call: record_command_result.
RecordCompletion(t) ==
    /\ rpc[t] = "completing"
    /\ commands' = RecordCommandResult(run[t].cid, run[t].status,
                                       run[t].exit_code, run[t].cid)
    /\ rpc' = [rpc EXCEPT ![t] = "recorded"]
    /\ UNCHANGED <<artifacts, supSeq, run, storeCalls>>
    /\ UNCHANGED <<leaseVars, toolVars, brokerVars, streamVars, apiVars>>

\* The log artifact recorded for successful commands only.
ArtifactOnSuccessOnly(t) ==
    /\ rpc[t] = "recorded"
    /\ artifacts' = IF run[t].status = "SUCCEEDED"
                    THEN Append(artifacts,
                                [session_id |-> run[t].session_id,
                                 command_id |-> run[t].cid,
                                 kind |-> "log", path |-> run[t].cid])
                    ELSE artifacts
    /\ rpc' = [rpc EXCEPT ![t] = "idle"]
    /\ run' = [run EXCEPT ![t] = NoRun]
    /\ UNCHANGED <<commands, supSeq, storeCalls>>
    /\ UNCHANGED <<leaseVars, toolVars, brokerVars, streamVars, apiVars>>

\* _record_completion, second call: record_artifact; run_command returns.
RecordArtifact(t) ==
    /\ rpc[t] = "recorded"
    /\ artifacts' = Append(artifacts,
                           [session_id |-> run[t].session_id,
                            command_id |-> run[t].cid,
                            kind |-> "log", path |-> run[t].cid])
    /\ rpc' = [rpc EXCEPT ![t] = "idle"]
    /\ run' = [run EXCEPT ![t] = NoRun]
    /\ UNCHANGED <<commands, supSeq, storeCalls>>
    /\ UNCHANGED <<leaseVars, toolVars, brokerVars, streamVars, apiVars>>

\* A new WorkerSupervisor instance takes the place of s (a restart):
\* __init__ starts with an empty _sequence.
RestartSupervisor(s) ==
    /\ \A t \in Threads : run[t].sup # s
    /\ \E x \in Sessions : supSeq[s][x] # 0
    /\ supSeq' = [supSeq EXCEPT ![s] = [x \in Sessions |-> 0]]
    /\ UNCHANGED <<commands, artifacts, rpc, run, storeCalls>>
    /\ UNCHANGED <<leaseVars, toolVars, brokerVars, streamVars, apiVars>>

\* A store client calls record_command_result itself.
StoreRecordCommandResult(c, status, exit_code) ==
    /\ c \in CommandIds
    /\ storeCalls < MaxStoreCalls
    /\ storeCalls' = storeCalls + 1
    /\ commands' = RecordCommandResult(c, status, exit_code, commands[c].log_path)
    /\ UNCHANGED <<artifacts, supSeq, rpc, run>>
    /\ UNCHANGED <<leaseVars, toolVars, brokerVars, streamVars, apiVars>>

\* run_command calls alone: the supervisor instances and their threads.
NextSup ==
    \/ \E t \in Threads, s \in Supervisors, x \in Sessions : ApplyPatchFails(t, s, x)
    \/ \E t \in Threads : PatchErrorRaised(t)
    \/ \E t \in Threads, s \in Supervisors, x \in Sessions : NextSequence(t, s, x)
    \/ \E t \in Threads : RunCreateCommand(t)
    \/ \E t \in Threads : RecordRunning(t)
    \/ \E t \in Threads : SpawnFails(t)
    \/ \E t \in Threads, code \in ExitCodes : ProcessExits(t, code)
    \/ \E t \in Threads : TimeoutExpires(t)
    \/ \E t \in Threads : PumpsJoin(t)
    \/ \E t \in Threads : DescendantsExit(t)
    \/ \E t \in Threads : RecordCompletion(t)
    \/ \E t \in Threads : RecordArtifact(t)
    \/ \E s \in Supervisors : RestartSupervisor(s)

\* run_command calls, the HTTP surface and other clients of the store.
NextCmd ==
    \/ NextSup
    \/ \E x \in Sessions : QueueCommand(x)
    \/ \E c \in CommandIds, st \in CommandStatuses, ec \in ExitCodes \cup {NULL} :
          StoreRecordCommandResult(c, st, ec)

InitCmdSpec == Init /\ dialect = "sqlite"

SpecSup == InitCmdSpec /\ [][NextSup]_vars

\* The threads of run_command keep running; the spawned process and its
\* descendants need not ever exit.
FairSup ==
    \A t \in Threads :
        /\ WF_vars(PatchErrorRaised(t))
        /\ WF_vars(RunCreateCommand(t))
        /\ WF_vars(RecordRunning(t))
        /\ WF_vars(PumpsJoin(t))
        /\ WF_vars(RecordCompletion(t))
        /\ WF_vars(RecordArtifact(t))

SpecSupFair == SpecSup /\ FairSup

SpecCmd == InitCmdSpec /\ [][NextCmd]_vars

(***************************************************************************)
(* Stream brokers (api/streams.py) of one session and the WebSocket        *)
(* handlers of /sessions/{id}/logs and /sessions/{id}/debug.  LogManager   *)
(* and DebugBroker are the same code; history and subscribers are indexed  *)
(* by broker.  Publishers are threads; the handlers are coroutines of one  *)
(* event loop, which runs the call_soon_threadsafe callbacks in order.     *)
(***************************************************************************)
EventIds == 1..Len(eventBy)

Subscribed(h) ==
    \E k \in Brokers : \E i \in 1..Len(subscribers[k]) : subscribers[k][i] = h

\* append / publish, under the lock: the event joins the history and the
\* subscriber list is copied.
PublishAppend(t, k) ==
    /\ pub[t].pc = "idle"
    /\ Len(eventBy) < MaxEvents
    /\ LET event == Len(eventBy) + 1
       IN /\ history' = [history EXCEPT ![k] = Append(@, event)]
          /\ eventBy' = Append(eventBy, t)
          /\ pub' = [pub EXCEPT ![t] =
                       IF subscribers[k] = <<>>
                       THEN NoPublish
                       ELSE [pc |-> "fanout", broker |-> k, event |-> event,
                             targets |-> subscribers[k]]]
    /\ UNCHANGED <<sessionStatus, subscribers, queue, loopCalls, ws>>
    /\ UNCHANGED <<leaseVars, toolVars, cmdVars, streamVars, apiVars>>

\* append / publish, outside the lock: loop.call_soon_threadsafe(
\* queue.put_nowait, event) for the next subscriber of the copy.
PublishEnqueue(t) ==
    /\ pub[t].pc = "fanout"
    /\ loopCalls' = Append(loopCalls,
                           [h |-> Head(pub[t].targets), event |-> pub[t].event])
    /\ pub' = [pub EXCEPT ![t] =
                 IF Tail(pub[t].targets) = <<>>
                 THEN NoPublish
                 ELSE [@ EXCEPT !.targets = Tail(@)]]
    /\ UNCHANGED <<sessionStatus, history, subscribers, queue, ws, eventBy>>
    /\ UNCHANGED <<leaseVars, toolVars, cmdVars, streamVars, apiVars>>

\* The callbacks run last in, first out.
RunNewestCallback ==
    /\ loopCalls # <<>>
    /\ LET call == loopCalls[Len(loopCalls)]
       IN queue' = IF ws[call.h].pc = "done"
                   THEN queue
                   ELSE [queue EXCEPT ![call.h] = Append(@, call.event)]
    /\ loopCalls' = SubSeq(loopCalls, 1, Len(loopCalls) - 1)
    /\ UNCHANGED <<sessionStatus, history, subscribers, pub, ws, eventBy>>
    /\ UNCHANGED <<leaseVars, toolVars, cmdVars, streamVars, apiVars>>

\* The event loop runs the oldest scheduled callback: queue.put_nowait(event)
\* on an unbounded asyncio.Queue.  The queue of a handler that has returned is
\* garbage.
RunCallback ==
    /\ loopCalls # <<>>
    /\ LET call == Head(loopCalls)
       IN queue' = IF ws[call.h].pc = "done"
                   THEN queue
                   ELSE [queue EXCEPT ![call.h] = Append(@, call.event)]
    /\ loopCalls' = Tail(loopCalls)
    /\ UNCHANGED <<sessionStatus, history, subscribers, pub, ws, eventBy>>
    /\ UNCHANGED <<leaseVars, toolVars, cmdVars, streamVars, apiVars>>

\* A client opens a WebSocket on one of the two endpoints; the session exists
\* and the handler accepts (its status is not looked at).
Connect(h, k) ==
    /\ ws[h].pc = "new"
    /\ ws' = [ws EXCEPT ![h] = [NoSocket EXCEPT !.pc = "accepted",
                                                !.broker = k,
                                                !.connected = TRUE]]
    /\ UNCHANGED <<sessionStatus, history, subscribers, queue, loopCalls, pub,
                   eventBy>>
    /\ UNCHANGED <<leaseVars, toolVars, cmdVars, streamVars, apiVars>>

\* The client goes away.
ClientDisconnect(h) ==
    /\ ws[h].pc \notin {"new", "done"}
    /\ ws[h].connected
    /\ ws' = [ws EXCEPT ![h].connected = FALSE]
    /\ UNCHANGED <<sessionStatus, history, subscribers, queue, loopCalls, pub,
                   eventBy>>
    /\ UNCHANGED <<leaseVars, toolVars, cmdVars, streamVars, apiVars>>

\* stream_logs: log_manager.history(session_id) and the replay of the copy.
\* send_json on a closed socket raises before the try block is entered.
LogsHistory(h) ==
    /\ ws[h].pc = "accepted"
    /\ ws[h].broker = "logs"
    /\ ws' = [ws EXCEPT ![h] =
                IF ws[h].connected \/ history["logs"] = <<>>
                THEN [@ EXCEPT !.pc = "replayed",
                               !.snapshot = history["logs"],
                               !.sent = history["logs"]]
                ELSE [@ EXCEPT !.pc = "done"]]
    /\ UNCHANGED <<sessionStatus, history, subscribers, queue, loopCalls, pub,
                   eventBy>>
    /\ UNCHANGED <<leaseVars, toolVars, cmdVars, streamVars, apiVars>>

\* stream_logs: log_manager.subscribe(session_id).
LogsSubscribe(h) ==
    /\ ws[h].pc = "replayed"
    /\ subscribers' = [subscribers EXCEPT !["logs"] = Append(@, h)]
    /\ ws' = [ws EXCEPT ![h].pc = "waiting"]
    /\ UNCHANGED <<sessionStatus, history, queue, loopCalls, pub, eventBy>>
    /\ UNCHANGED <<leaseVars, toolVars, cmdVars, streamVars, apiVars>>

\* debug_stream: broker.subscribe_with_history(session_id) copies the history
\* and registers the queue under one hold of the lock.
DebugSubscribeWithHistory(h) ==
    /\ ws[h].pc = "accepted"
    /\ ws[h].broker = "debug"
    /\ subscribers' = [subscribers EXCEPT !["debug"] = Append(@, h)]
    /\ ws' = [ws EXCEPT ![h].pc = "subscribed",
                        ![h].snapshot = history["debug"]]
    /\ UNCHANGED <<sessionStatus, history, queue, loopCalls, pub, eventBy>>
    /\ UNCHANGED <<leaseVars, toolVars, cmdVars, streamVars, apiVars>>

\* debug_stream: the replay of the copy, before the try block: send_json on a
\* closed socket raises and the handler ends without unsubscribe.
DebugReplay(h) ==
    /\ ws[h].pc = "subscribed"
    /\ ws' = [ws EXCEPT ![h] =
                IF ws[h].connected \/ ws[h].snapshot = <<>>
                THEN [@ EXCEPT !.pc = "waiting", !.sent = ws[h].snapshot]
                ELSE [@ EXCEPT !.pc = "done"]]
    /\ UNCHANGED <<sessionStatus, history, subscribers, queue, loopCalls, pub,
                   eventBy>>
    /\ UNCHANGED <<leaseVars, toolVars, cmdVars, streamVars, apiVars>>

\* _unsubscribe, from the handler's finally: the queue leaves the subscriber
\* list, the None sentinel is scheduled, and the handler returns.
Unsubscribe(h) ==
    /\ subscribers' = [subscribers EXCEPT
                         ![ws[h].broker] = SelectSeq(@, LAMBDA x : x # h)]
    /\ loopCalls' = Append(loopCalls, [h |-> h, event |-> NULL])
    /\ ws' = [ws EXCEPT ![h].pc = "done"]

\* The handler's loop: queue.get() returns an item.  None ends the loop; an
\* event is sent, and send_json on a closed socket raises WebSocketDisconnect.
QueueGet(h) ==
    /\ ws[h].pc = "waiting"
    /\ queue[h] # <<>>
    /\ queue' = [queue EXCEPT ![h] = Tail(@)]
    /\ IF Head(queue[h]) # NULL /\ ws[h].connected
       THEN /\ ws' = [ws EXCEPT ![h].sent = Append(@, Head(queue[h]))]
            /\ UNCHANGED <<subscribers, loopCalls>>
       ELSE Unsubscribe(h)
    /\ UNCHANGED <<sessionStatus, history, pub, eventBy>>
    /\ UNCHANGED <<leaseVars, toolVars, cmdVars, streamVars, apiVars>>

\* debug_stream also awaits websocket.receive_json(), which raises
\* WebSocketDisconnect once the client is gone.
DebugReceiveDisconnect(h) ==
    /\ ws[h].pc = "waiting"
    /\ ws[h].broker = "debug"
    /\ ~ws[h].connected
    /\ Unsubscribe(h)
    /\ UNCHANGED <<sessionStatus, history, queue, pub, eventBy>>
    /\ UNCHANGED <<leaseVars, toolVars, cmdVars, streamVars, apiVars>>

\* DELETE /sessions/{id}: cancel_session sets the row's status.
CancelSession ==
    /\ sessionStatus # "CANCELLED"
    /\ sessionStatus' = "CANCELLED"
    /\ UNCHANGED <<history, subscribers, queue, loopCalls, pub, ws, eventBy>>
    /\ UNCHANGED <<leaseVars, toolVars, cmdVars, streamVars, apiVars>>

NextBroker ==
    \/ \E t \in Publishers, k \in Brokers : PublishAppend(t, k)
    \/ \E t \in Publishers : PublishEnqueue(t)
    \/ RunCallback
    \/ \E h \in Handlers, k \in Brokers : Connect(h, k)
    \/ \E h \in Handlers : ClientDisconnect(h)
    \/ \E h \in Handlers : LogsHistory(h)
    \/ \E h \in Handlers : LogsSubscribe(h)
    \/ \E h \in Handlers : DebugSubscribeWithHistory(h)
    \/ \E h \in Handlers : DebugReplay(h)
    \/ \E h \in Handlers : QueueGet(h)
    \/ \E h \in Handlers : DebugReceiveDisconnect(h)

SpecBroker == InitCmdSpec /\ [][NextBroker]_vars

\* The event loop keeps running its callbacks and coroutines and a publishing
\* thread finishes its fan-out; nobody has to publish, connect, disconnect or
\* cancel.
FairBroker ==
    /\ WF_vars(RunCallback)
    /\ \A t \in Publishers : WF_vars(PublishEnqueue(t))
    /\ \A h \in Handlers :
          /\ WF_vars(LogsHistory(h))
          /\ WF_vars(LogsSubscribe(h))
          /\ WF_vars(DebugSubscribeWithHistory(h))
          /\ WF_vars(DebugReplay(h))
          /\ WF_vars(QueueGet(h))
          /\ WF_vars(DebugReceiveDisconnect(h))

SpecBrokerFair == SpecBroker /\ FairBroker

\* The brokers and sockets of a session that may be cancelled.
NextCancel ==
    \/ NextBroker
    \/ CancelSession

SpecCancel == InitCmdSpec /\ [][NextCancel]_vars /\ FairBroker

(***************************************************************************)
(* LogStream (runner/log_stream.py): the log file of one command, its      *)
(* listener callbacks and its follow() subscriptions.  The writers are the *)
(* stdout and stderr pump threads of _spawn_and_stream, or any other       *)
(* caller of write; close, add_listener, follow and LogSubscription.close  *)
(* are called from further threads.                                        *)
(***************************************************************************)
Without(seq, x) == SelectSeq(seq, LAMBDA y : y # x)

Contains(seq, x) == \E i \in 1..Len(seq) : seq[i] = x

Range(seq) == {seq[i] : i \in 1..Len(seq)}

\* write, under the lock: the text is appended to the file and flushed, and
\* the listeners and the queues are copied.  On a closed handle write raises.
WriteLocked(w) ==
    /\ writer[w].pc = "idle"
    /\ ~handleClosed
    /\ Len(logFile) < MaxChunks
    /\ LET chunk == Len(logFile) + 1
       IN /\ logFile' = Append(logFile, chunk)
          /\ writer' = [writer EXCEPT ![w] =
                          IF listeners = <<>> /\ queueListeners = <<>>
                          THEN NoWrite
                          ELSE [pc |-> "notifying", chunk |-> chunk,
                                listeners |-> listeners,
                                queues |-> queueListeners]]
    /\ UNCHANGED <<handleClosed, listeners, queueListeners, subQueue, received,
                   follower, listenerReg>>
    /\ UNCHANGED <<leaseVars, toolVars, cmdVars, brokerVars, apiVars>>

\* The rest of a write, with the lock released.
WriteDone(w, ls, qs) ==
    IF ls = <<>> /\ qs = <<>>
    THEN NoWrite
    ELSE [writer[w] EXCEPT !.listeners = ls, !.queues = qs]

\* write, outside the lock: listener(chunk) for the next listener of the copy.
WriteNotify(w) ==
    /\ writer[w].pc = "notifying"
    /\ writer[w].listeners # <<>>
    /\ received' = [received EXCEPT
                      ![Head(writer[w].listeners)] = Append(@, writer[w].chunk)]
    /\ writer' = [writer EXCEPT
                    ![w] = WriteDone(w, Tail(writer[w].listeners),
                                     writer[w].queues)]
    /\ UNCHANGED <<logFile, handleClosed, listeners, queueListeners, subQueue,
                   follower, listenerReg>>
    /\ UNCHANGED <<leaseVars, toolVars, cmdVars, brokerVars, apiVars>>

\* write, outside the lock, after the listeners: queue.put(chunk) for the
\* next queue of the copy.
WriteEnqueue(w) ==
    /\ writer[w].pc = "notifying"
    /\ writer[w].listeners = <<>>
    /\ writer[w].queues # <<>>
    /\ subQueue' = [subQueue EXCEPT
                      ![Head(writer[w].queues)] = Append(@, writer[w].chunk)]
    /\ writer' = [writer EXCEPT
                    ![w] = WriteDone(w, <<>>, Tail(writer[w].queues))]
    /\ UNCHANGED <<logFile, handleClosed, listeners, queueListeners, received,
                   follower, listenerReg>>
    /\ UNCHANGED <<leaseVars, toolVars, cmdVars, brokerVars, apiVars>>

\* add_listener: the callback joins _listeners.
AddListener(l) ==
    /\ listenerReg[l].state = "none"
    /\ listeners' = Append(listeners, l)
    /\ listenerReg' = [listenerReg EXCEPT
                         ![l] = [NoRegistration EXCEPT
                                   !.state = "registered",
                                   !.regAt = Len(logFile)]]
    /\ UNCHANGED <<logFile, handleClosed, queueListeners, subQueue, received,
                   writer, follower>>
    /\ UNCHANGED <<leaseVars, toolVars, cmdVars, brokerVars, apiVars>>

\* The _remove callable add_listener returned.
RemoveListener(l) ==
    /\ listenerReg[l].state = "registered"
    /\ listeners' = Without(listeners, l)
    /\ listenerReg' = [listenerReg EXCEPT
                         ![l].state = "removed",
                         ![l].remAt = IF @ = NULL THEN Len(logFile) ELSE @]
    /\ UNCHANGED <<logFile, handleClosed, queueListeners, subQueue, received,
                   writer, follower>>
    /\ UNCHANGED <<leaseVars, toolVars, cmdVars, brokerVars, apiVars>>

\* A follow() that also hands the new subscription the chunks on file.
FollowReplaying(s) ==
    /\ follower[s].state = "none"
    /\ queueListeners' = Append(queueListeners, s)
    /\ subQueue' = [subQueue EXCEPT ![s] = logFile]
    /\ follower' = [follower EXCEPT
                      ![s] = [NoRegistration EXCEPT
                                !.state = "live", !.regAt = Len(logFile)]]
    /\ UNCHANGED <<logFile, handleClosed, listeners, received, writer,
                   listenerReg>>
    /\ UNCHANGED <<leaseVars, toolVars, cmdVars, brokerVars, apiVars>>

\* follow: a new empty Queue joins _queue_listeners under the next token.
Follow(s) ==
    /\ follower[s].state = "none"
    /\ queueListeners' = Append(queueListeners, s)
    /\ follower' = [follower EXCEPT
                      ![s] = [NoRegistration EXCEPT
                                !.state = "live", !.regAt = Len(logFile)]]
    /\ UNCHANGED <<logFile, handleClosed, listeners, subQueue, received, writer,
                   listenerReg>>
    /\ UNCHANGED <<leaseVars, toolVars, cmdVars, brokerVars, apiVars>>

\* LogSubscription.close with _closed false: _close pops the token under the
\* lock.  When the stream's close has taken the queue already, pop returns
\* None and nothing is put.
SubscriptionClosePop(s) ==
    /\ follower[s].state = "live"
    /\ ~follower[s].closed
    /\ IF Contains(queueListeners, s)
       THEN /\ queueListeners' = Without(queueListeners, s)
            /\ follower' = [follower EXCEPT ![s].state = "popped",
                                            ![s].remAt = Len(logFile)]
       ELSE /\ queueListeners' = queueListeners
            /\ follower' = [follower EXCEPT ![s].closed = TRUE]
    /\ UNCHANGED <<logFile, handleClosed, listeners, subQueue, received, writer,
                   listenerReg>>
    /\ UNCHANGED <<leaseVars, toolVars, cmdVars, brokerVars, apiVars>>

\* _close, outside the lock: queue.put(_SENTINEL); then _closed = True.
SubscriptionClosePut(s) ==
    /\ follower[s].state = "popped"
    /\ subQueue' = [subQueue EXCEPT ![s] = Append(@, SENTINEL)]
    /\ follower' = [follower EXCEPT ![s].state = "live", ![s].closed = TRUE]
    /\ UNCHANGED <<logFile, handleClosed, listeners, queueListeners, received,
                   writer, listenerReg>>
    /\ UNCHANGED <<leaseVars, toolVars, cmdVars, brokerVars, apiVars>>

\* LogSubscription.__iter__ takes the sentinel out of the queue and ends.
IterationEnds(s) ==
    /\ follower[s].state = "live"
    /\ ~follower[s].closed
    /\ Contains(subQueue[s], SENTINEL)
    /\ follower' = [follower EXCEPT ![s].closed = TRUE]
    /\ UNCHANGED <<logFile, handleClosed, listeners, queueListeners, subQueue,
                   received, writer, listenerReg>>
    /\ UNCHANGED <<leaseVars, toolVars, cmdVars, brokerVars, apiVars>>

\* LogStream.close, all of it under the lock: the handle is closed, every
\* queue of _queue_listeners gets the sentinel, and both collections are
\* cleared.  A second close returns at once.
StreamClose ==
    /\ ~handleClosed
    /\ handleClosed' = TRUE
    /\ subQueue' = [s \in Followers |->
                      IF Contains(queueListeners, s)
                      THEN Append(subQueue[s], SENTINEL) ELSE subQueue[s]]
    /\ follower' = [s \in Followers |->
                      IF Contains(queueListeners, s)
                      THEN [follower[s] EXCEPT !.remAt = Len(logFile)]
                      ELSE follower[s]]
    /\ listenerReg' = [l \in ListenerIds |->
                         IF Contains(listeners, l)
                         THEN [listenerReg[l] EXCEPT !.remAt = Len(logFile)]
                         ELSE listenerReg[l]]
    /\ queueListeners' = <<>>
    /\ listeners' = <<>>
    /\ UNCHANGED <<logFile, received, writer>>
    /\ UNCHANGED <<leaseVars, toolVars, cmdVars, brokerVars, apiVars>>

NextStream ==
    \/ \E w \in StreamWriters : WriteLocked(w)
    \/ \E w \in StreamWriters : WriteNotify(w)
    \/ \E w \in StreamWriters : WriteEnqueue(w)
    \/ \E l \in ListenerIds : AddListener(l)
    \/ \E l \in ListenerIds : RemoveListener(l)
    \/ \E s \in Followers : Follow(s)
    \/ \E s \in Followers : SubscriptionClosePop(s)
    \/ \E s \in Followers : SubscriptionClosePut(s)
    \/ \E s \in Followers : IterationEnds(s)
    \/ StreamClose

SpecStream == InitCmdSpec /\ [][NextStream]_vars

(***************************************************************************)
(* Session rows (db/models.py, Session): creation, the store's             *)
(* update_session_status and DELETE /sessions/{id}.                        *)
(***************************************************************************)
\* MetadataStore.update_session_status: the row takes the given status,
\* whatever its status was, and completed_at when one is given.
UpdateSessionStatus(x, status, completed_at) ==
    [sessions EXCEPT ![x] =
        [@ EXCEPT !.status = status,
                  !.completed_at = IF completed_at # NULL
                                   THEN completed_at ELSE @]]

\* MetadataStore.create_session: a new row, PENDING by the column's default.
CreateSession(x) ==
    /\ sessions[x].status = "NONE"
    /\ sessions' = [sessions EXCEPT ![x] = [NoSession EXCEPT !.status = "PENDING"]]
    /\ UNCHANGED <<tokens, request, scopeCheck>>
    /\ UNCHANGED <<leaseVars, toolVars, cmdVars, brokerVars, streamVars>>

\* The execution plane records a session's progress through the store, along
\* the lifecycle: PENDING to RUNNING, RUNNING to COMPLETED or FAILED.
StoreUpdateSessionStatus(x, status) ==
    /\ \/ sessions[x].status = "PENDING" /\ status = "RUNNING"
       \/ sessions[x].status = "RUNNING" /\ status \in {"COMPLETED", "FAILED"}
    /\ \E completed_at \in {NULL, now} :
         sessions' = UpdateSessionStatus(x, status, completed_at)
    /\ UNCHANGED <<tokens, request, scopeCheck>>
    /\ UNCHANGED <<leaseVars, toolVars, cmdVars, brokerVars, streamVars>>

\* DELETE /sessions/{id} by an authorised client: 404 for an unknown session,
\* otherwise update_session_status(CANCELLED, completed_at=now).
CancelSessionRequest(x) ==
    /\ sessions' = IF sessions[x].status = "NONE"
                   THEN sessions
                   ELSE UpdateSessionStatus(x, "CANCELLED", now)
    /\ UNCHANGED <<tokens, request, scopeCheck>>
    /\ UNCHANGED <<leaseVars, toolVars, cmdVars, brokerVars, streamVars>>

NextSession ==
    \/ \E x \in Sessions : CreateSession(x)
    \/ \E x \in Sessions, st \in SessionStatuses : StoreUpdateSessionStatus(x, st)
    \/ \E x \in Sessions : CancelSessionRequest(x)
    \/ Tick

SpecSession == InitCmdSpec /\ [][NextSession]_vars

(***************************************************************************)
(* Bearer tokens (db/models.py, AuthToken) and the store's auth helpers.   *)
(* The raw secret of row i is i; a client may present any secret, minted   *)
(* or not.                                                                 *)
(***************************************************************************)
TokenIds == 1..Len(tokens)

\* hashlib.sha256(raw).hexdigest(): no two secrets share a digest.
Sha256(raw) == 100 - 3 * raw

\* MetadataStore.create_token: the row stores the digest of a fresh secret.
NewToken(name, raw, scopes, expires_at) ==
    [name |-> name, token_hash |-> Sha256(raw), scopes |-> scopes,
     expires_at |-> expires_at, revoked_at |-> NULL, last_used_at |-> NULL]

\* authenticate without the revocation test.
AuthenticateIgnoringRevocation(raw, t) ==
    LET found == {i \in TokenIds : tokens[i].token_hash = Sha256(raw)}
    IN IF found = {} THEN NULL
       ELSE LET i == CHOOSE j \in found : TRUE
                expired == tokens[i].expires_at # NULL /\ tokens[i].expires_at <= t
            IN IF expired THEN NULL ELSE i

\* MetadataStore.authenticate, up to its decision: the row whose token_hash
\* is the digest of the secret, unless it is expired at t or revoked.
Authenticate(raw, t) ==
    LET found == {i \in TokenIds : tokens[i].token_hash = Sha256(raw)}
    IN IF found = {} THEN NULL
       ELSE LET i == CHOOSE j \in found : TRUE
                expired == tokens[i].expires_at # NULL /\ tokens[i].expires_at <= t
                revoked == tokens[i].revoked_at # NULL
            IN IF expired \/ revoked THEN NULL ELSE i

\* MetadataStore.authenticate, the commit: last_used_at takes the call's now.
TouchToken(tid, t) == [tokens EXCEPT ![tid].last_used_at = t]

\* create_token(name, scopes, expires_at); name is a unique column.
CreateToken(name, scopes, expires_at) ==
    /\ \A i \in TokenIds : tokens[i].name # name
    /\ tokens' = Append(tokens,
                        NewToken(name, Len(tokens) + 1, scopes, expires_at))
    /\ UNCHANGED <<sessions, request, scopeCheck>>
    /\ UNCHANGED <<leaseVars, toolVars, cmdVars, brokerVars, streamVars>>

\* revoked_at is set on the row.
RevokeToken(tid) ==
    /\ tokens[tid].revoked_at = NULL
    /\ tokens' = [tokens EXCEPT ![tid].revoked_at = now]
    /\ UNCHANGED <<sessions, request, scopeCheck>>
    /\ UNCHANGED <<leaseVars, toolVars, cmdVars, brokerVars, streamVars>>

\* A client calls authenticate(raw): the SELECT and the decision.
AuthenticateRead(c, raw) ==
    /\ request[c].pc \in {"idle", "done"}
    /\ LET tid == Authenticate(raw, now)
       IN request' = [request EXCEPT ![c] =
                        [NoRequest EXCEPT
                           !.pc = IF tid = NULL THEN "done" ELSE "committing",
                           !.endpoint = "authenticate",
                           !.raw = raw, !.tid = tid, !.at = now]]
    /\ UNCHANGED <<tokens, sessions, scopeCheck>>
    /\ UNCHANGED <<leaseVars, toolVars, cmdVars, brokerVars, streamVars>>

\* authenticate commits last_used_at and returns the record.
AuthenticateCommit(c) ==
    /\ request[c].pc = "committing"
    /\ tokens' = TouchToken(request[c].tid, request[c].at)
    /\ request' = [request EXCEPT ![c].pc = "done"]
    /\ UNCHANGED <<sessions, scopeCheck>>
    /\ UNCHANGED <<leaseVars, toolVars, cmdVars, brokerVars, streamVars>>

NextToken ==
    \/ \E name \in TokenNames, expires_at \in TokenExpiries :
          CreateToken(name, {"admin"}, expires_at)
    \/ \E tid \in TokenIds : RevokeToken(tid)
    \/ \E c \in Clients, raw \in Secrets : AuthenticateRead(c, raw)
    \/ \E c \in Clients : AuthenticateCommit(c)
    \/ Tick

SpecToken == InitCmdSpec /\ [][NextToken]_vars

(***************************************************************************)
(* Scope checks (api/auth.py).                                             *)
(***************************************************************************)
\* A check that passes when the token holds any one of the required scopes.
HasAnyScope(token_scopes, scopes) ==
    IF "admin" \in token_scopes
    THEN TRUE
    ELSE token_scopes \cap scopes # {}

\* _has_scopes(token, scopes).
HasScopes(token_scopes, scopes) ==
    IF "admin" \in token_scopes
    THEN TRUE
    ELSE scopes \subseteq token_scopes

\* BearerTokenAuth.__call__, once the token has authenticated: 403 when
\* scopes are required and _has_scopes is false.
ScopeDenied(token_scopes, required) ==
    required # {} /\ ~HasScopes(token_scopes, required)

\* The check applied to one token scope set and one required set.
CheckScopes ==
    /\ scopeCheck.result = "none"
    /\ scopeCheck' = [scopeCheck EXCEPT
                        !.result = IF HasScopes(scopeCheck.token_scopes,
                                                scopeCheck.required)
                                   THEN "granted" ELSE "denied",
                        !.status = IF ScopeDenied(scopeCheck.token_scopes,
                                                  scopeCheck.required)
                                   THEN HTTP_403_FORBIDDEN ELSE NULL]
    /\ UNCHANGED <<tokens, sessions, request>>
    /\ UNCHANGED <<leaseVars, toolVars, cmdVars, brokerVars, streamVars>>

InitScopes ==
    /\ InitLease /\ dialect = "sqlite"
    /\ InitCmd /\ InitBroker /\ InitStream /\ InitTables /\ InitTools
    /\ scopeCheck \in [token_scopes : SUBSET ScopeNames,
                       required : SUBSET ScopeNames,
                       result : {"none"}, status : {NULL}]

SpecScopes == InitScopes /\ [][CheckScopes]_vars

(***************************************************************************)
(* POST /sessions/{id}/commands with its BearerTokenAuth dependency        *)
(* (api/routers/commands.py, api/auth.py).  header is the secret of the    *)
(* Authorization header, NULL when the header is missing.                  *)
(***************************************************************************)
QueueCommandScopes == {"commands:write", "sessions:write"}

\* The response of a request behind BearerTokenAuth(required), before the
\* handler's body: 401, 403, or NULL when the dependency lets it through.
BearerTokenAuth(header, required) ==
    IF header = NULL THEN HTTP_401_UNAUTHORIZED
    ELSE IF Authenticate(header, now) = NULL THEN HTTP_401_UNAUTHORIZED
    ELSE IF ScopeDenied(tokens[Authenticate(header, now)].scopes, required)
         THEN HTTP_403_FORBIDDEN
    ELSE NULL

\* The token table after the dependency ran: authenticate bumps last_used_at
\* of the token it returns.
AfterAuthenticate(header) ==
    IF header = NULL \/ Authenticate(header, now) = NULL
    THEN tokens
    ELSE TouchToken(Authenticate(header, now), now)

\* The request as the client sees it afterwards.
Answered(endpoint, header, x, status) ==
    [pc |-> "done", endpoint |-> endpoint, raw |-> header,
     tid |-> IF header = NULL THEN NULL ELSE Authenticate(header, now),
     at |-> now, status |-> status, session |-> x]

\* queue_command: the dependency, then 404 for an unknown session, then the
\* new PENDING command row.
PostCommand(c, header, x) ==
    /\ request[c].pc = "idle"
    /\ Len(commands) < MaxCommands
    /\ LET denied == BearerTokenAuth(header, QueueCommandScopes)
           status == IF denied # NULL THEN denied
                     ELSE IF sessions[x].status = "NONE"
                          THEN HTTP_404_NOT_FOUND
                     ELSE HTTP_201_CREATED
       IN /\ request' = [request EXCEPT
                           ![c] = Answered("queue_command", header, x, status)]
          /\ tokens' = AfterAuthenticate(header)
          /\ commands' = IF status = HTTP_201_CREATED
                         THEN CreateCommand(x, NextCommandSequence(x))
                         ELSE commands
    /\ UNCHANGED <<sessions, scopeCheck>>
    /\ UNCHANGED <<artifacts, supSeq, rpc, run, storeCalls>>
    /\ UNCHANGED <<leaseVars, toolVars, brokerVars, streamVars>>

\* The scope sets of the tokens the deployment issues.
IssuedScopeSets ==
    {{"admin"}, {"sessions:read"}, {"commands:write"}, {"sessions:write"},
     {"commands:write", "sessions:write"}, {"sessions:read", "artifacts:read"}}

NextHttp ==
    \/ \E name \in TokenNames, scopes \in IssuedScopeSets :
          CreateToken(name, scopes, NULL)
    \/ \E tid \in TokenIds : RevokeToken(tid)
    \/ \E x \in Sessions : CreateSession(x)
    \/ \E c \in Clients, header \in Secrets \cup {NULL}, x \in Sessions :
          PostCommand(c, header, x)

SpecHttp == InitCmdSpec /\ [][NextHttp]_vars

(***************************************************************************)
(* The WebSocket upgrade of /sessions/{id}/logs and /sessions/{id}/debug   *)
(* (api/auth.py, api/routers/logs.py, api/routers/debug.py), followed by   *)
(* the handlers and brokers above.  The brokers are those of session       *)
(* StreamedSession; any other id is unknown to the store.                  *)
(***************************************************************************)
StreamedSession == 1

\* The scopes stream_logs and debug_stream pass to require_websocket_token.
WsScopes(k) ==
    IF k = "logs" THEN {"sessions:read", "artifacts:read"}
    ELSE {"sessions:write"}

\* An upgrade guard that asks for a valid token and no scope.
RequireValidTokenOnly(header, scopes) ==
    /\ header # NULL
    /\ Authenticate(header, now) # NULL

\* require_websocket_token returns the token: the header carries a secret,
\* the secret authenticates and the token has the scopes.  Otherwise it
\* closes the socket with 1008 and raises.
RequireWebsocketToken(header, scopes) ==
    /\ header # NULL
    /\ Authenticate(header, now) # NULL
    /\ ~(scopes # {} /\ ~HasScopes(tokens[Authenticate(header, now)].scopes,
                                   scopes))

\* stream_logs / debug_stream up to accept: the token, then the session;
\* close(1008) and return, or accept.
WsUpgrade(h, k, header, x) ==
    /\ request[h].pc = "idle"
    /\ ws[h].pc = "new"
    /\ LET accepted == /\ RequireWebsocketToken(header, WsScopes(k))
                       /\ sessions[x].status # "NONE"
       IN /\ request' = [request EXCEPT
                           ![h] = Answered(k, header, x,
                                           IF accepted THEN NULL
                                           ELSE WS_1008_POLICY_VIOLATION)]
          /\ ws' = [ws EXCEPT ![h] =
                      IF accepted
                      THEN [NoSocket EXCEPT !.pc = "accepted", !.broker = k,
                                            !.connected = TRUE]
                      ELSE [NoSocket EXCEPT !.pc = "closed"]]
    /\ tokens' = AfterAuthenticate(header)
    /\ UNCHANGED <<sessions, scopeCheck>>
    /\ UNCHANGED <<sessionStatus, history, subscribers, queue, loopCalls, pub,
                   eventBy>>
    /\ UNCHANGED <<leaseVars, toolVars, cmdVars, streamVars>>

\* No Authorization header, the secret of the one token minted, and a secret
\* that was never minted.
WsHeaders == {NULL, 1, 2}

NextWs ==
    \/ \E scopes \in IssuedScopeSets : CreateToken("cli", scopes, NULL)
    \/ \E tid \in TokenIds : RevokeToken(tid)
    \/ CreateSession(StreamedSession)
    \/ \E h \in Handlers, k \in Brokers, header \in WsHeaders,
          x \in Sessions : WsUpgrade(h, k, header, x)
    \/ \E t \in Publishers, k \in Brokers : PublishAppend(t, k)
    \/ \E t \in Publishers : PublishEnqueue(t)
    \/ RunCallback
    \/ \E h \in Handlers : LogsHistory(h)
    \/ \E h \in Handlers : LogsSubscribe(h)
    \/ \E h \in Handlers : DebugSubscribeWithHistory(h)
    \/ \E h \in Handlers : DebugReplay(h)
    \/ \E h \in Handlers : QueueGet(h)

SpecWs == InitCmdSpec /\ [][NextWs]_vars

(***************************************************************************)
(* EnvironmentManager.ensure (runner/environment.py) over the state files  *)
(* of DependencyStateStore (worktrees/dependency_sync.py).  A name is a    *)
(* sequence of characters.  envDirs holds a pair <<directory, marker>> for *)
(* every directory under root: marker is FALSE in a freshly built          *)
(* environment and TRUE once the environment has been written to.          *)
(* stateStore holds a pair <<key, fingerprint>> for every state file.      *)
(***************************************************************************)
RECURSIVE LStrip(_)
LStrip(name) ==
    IF name # <<>> /\ Head(name) = " " THEN LStrip(Tail(name)) ELSE name

RECURSIVE RStrip(_)
RStrip(name) ==
    IF name # <<>> /\ name[Len(name)] = " "
    THEN RStrip(SubSeq(name, 1, Len(name) - 1)) ELSE name

\* str.replace(old, new), for one-character old and new.
Replace(name, old, new) ==
    [i \in DOMAIN name |-> IF name[i] = old THEN new ELSE name[i]]

\* env_path = root / ((name.strip() or "default").replace("/", "-"))
EnvPath(name) ==
    LET stripped == RStrip(LStrip(name))
    IN Replace(IF stripped = <<>>
               THEN <<"d", "e", "f", "a", "u", "l", "t">> ELSE stripped,
               "/", "-")

\* DependencyStateStore._state_path(key)
StatePath(key) == Replace(key, "/", "_")

PathExists(path) == \E d \in envDirs : d[1] = path

\* DependencyStateStore.read(key): the stored fingerprint, or None.
StateRead(key) ==
    IF \E f \in stateStore : f[1] = StatePath(key)
    THEN (CHOOSE f \in stateStore : f[1] = StatePath(key))[2]
    ELSE NULL

\* DependencyStateStore.write(key, fingerprint)
StateWrite(key, fingerprint) ==
    {f \in stateStore : f[1] # StatePath(key)}
        \cup {<<StatePath(key), fingerprint>>}

NeedsRebuild(env_path, key, fingerprint) ==
    IF ~PathExists(env_path) THEN TRUE
    ELSE IF fingerprint = NULL THEN FALSE
    ELSE IF StateRead(key) = NULL THEN TRUE
    ELSE StateRead(key) # fingerprint

\* ensure(request, force): fingerprint is None for a request without
\* manifests and metadata, and the digest of compute_dependency_hash else.
Ensure(name, fingerprint, force) ==
    LET env_path == EnvPath(name)
        needs_rebuild == force \/ NeedsRebuild(env_path, name, fingerprint)
    IN /\ envDirs' = IF needs_rebuild
                      THEN {d \in envDirs : d[1] # env_path}
                               \cup {<<env_path, FALSE>>}
                      ELSE envDirs
       /\ stateStore' =
             IF fingerprint # NULL /\ (needs_rebuild \/ StateRead(name) = NULL)
             THEN StateWrite(name, fingerprint)
             ELSE stateStore
       /\ ensureCall' = [turn |-> 1 - ensureCall.turn, name |-> name,
                         fingerprint |-> fingerprint, force |-> force,
                         existed |-> PathExists(env_path),
                         cached |-> StateRead(name),
                         rebuilt |-> needs_rebuild]
       /\ UNCHANGED <<hashCheck, repoVars, debugVars, vaultVars,
                 downloadVars>>
       /\ UNCHANGED <<leaseVars, cmdVars, brokerVars, streamVars, apiVars>>

\* A command run in the environment leaves a file in it (the marker of
\* tests/runner/test_environment.py).
WriteMarker(env_path) ==
    /\ <<env_path, FALSE>> \in envDirs
    /\ envDirs' = (envDirs \ {<<env_path, FALSE>>}) \cup {<<env_path, TRUE>>}
    /\ UNCHANGED <<stateStore, ensureCall>>
    /\ UNCHANGED <<hashCheck, repoVars, debugVars, vaultVars,
                 downloadVars>>
    /\ UNCHANGED <<leaseVars, cmdVars, brokerVars, streamVars, apiVars>>

NextEnv ==
    \/ \E name \in EnvNames, fingerprint \in Fingerprints \cup {NULL},
          force \in BOOLEAN : Ensure(name, fingerprint, force)
    \/ \E name \in EnvNames : WriteMarker(EnvPath(name))

SpecEnv == InitCmdSpec /\ [][NextEnv]_vars

(***************************************************************************)
(* compute_dependency_hash (worktrees/dependency_sync.py).  Strings and    *)
(* file contents are sequences of characters; a manifest is a record of    *)
(* its name, its bytes and its st_mtime_ns, all manifests lying in one     *)
(* directory; extra_inputs is a set of <<key, value>> pairs.  SHA-256 is   *)
(* taken to be free of collisions: a digest is the sequence fed to it.     *)
(***************************************************************************)
CharOrder == <<"0", "1", "2", "3", "4", "5", "6", "7", "8", "9",
               "a", "b", "k", "v">>

Ord(c) == CHOOSE i \in DOMAIN CharOrder : CharOrder[i] = c

\* str < str
RECURSIVE StrLess(_, _)
StrLess(x, y) ==
    IF y = <<>> THEN FALSE
    ELSE IF x = <<>> THEN TRUE
    ELSE IF Head(x) # Head(y) THEN Ord(Head(x)) < Ord(Head(y))
    ELSE StrLess(Tail(x), Tail(y))

\* str(int), for a non-negative int
RECURSIVE Str(_)
Str(n) ==
    IF n < 10 THEN <<CharOrder[n + 1]>>
    ELSE Str(n \div 10) \o <<CharOrder[(n % 10) + 1]>>

\* sorted(map(Path, manifests))
RECURSIVE SortedManifests(_)
SortedManifests(files) ==
    IF files = {} THEN <<>>
    ELSE LET first == CHOOSE f \in files :
                          \A g \in files \ {f} : StrLess(f.name, g.name)
         IN <<first>> \o SortedManifests(files \ {first})

\* sorted(extra_inputs)
RECURSIVE SortedItems(_)
SortedItems(items) ==
    IF items = {} THEN <<>>
    ELSE LET first == CHOOSE e \in items :
                          \A g \in items \ {e} : StrLess(e[1], g[1])
         IN <<first>> \o SortedItems(items \ {first})

RECURSIVE FeedManifests(_)
FeedManifests(sorted) ==
    IF sorted = <<>> THEN <<>>
    ELSE Head(sorted).name \o Head(sorted).bytes
             \o Str(Head(sorted).st_mtime_ns)
             \o FeedManifests(Tail(sorted))

RECURSIVE FeedItems(_)
FeedItems(sorted) ==
    IF sorted = <<>> THEN <<>>
    ELSE Head(sorted)[1] \o Head(sorted)[2] \o FeedItems(Tail(sorted))

ComputeDependencyHash(manifests, extra_inputs) ==
    FeedManifests(SortedManifests({manifests[i] : i \in DOMAIN manifests}))
        \o FeedItems(SortedItems(extra_inputs))

ManifestFiles == [name : FileNames, bytes : FileBytes, st_mtime_ns : Mtimes]

\* The manifest lists and metadata maps the hash is computed for.
HashInputs ==
    [manifests : {<<>>} \cup {<<f>> : f \in ManifestFiles}
                    \cup {m \in ManifestFiles \X ManifestFiles :
                              m[1].name # m[2].name},
     extra_inputs : {{}} \cup {{<<k, v>>} : k \in MetaKeys, v \in MetaValues}]

HashBoth ==
    /\ ~hashCheck.done
    /\ hashCheck' = [hashCheck EXCEPT
                       !.done = TRUE,
                       !.digests =
                           <<ComputeDependencyHash(
                                 hashCheck.left.manifests,
                                 hashCheck.left.extra_inputs),
                             ComputeDependencyHash(
                                 hashCheck.right.manifests,
                                 hashCheck.right.extra_inputs)>>]
    /\ UNCHANGED <<envVars, repoVars, debugVars, vaultVars,
                 downloadVars>>
    /\ UNCHANGED <<leaseVars, cmdVars, brokerVars, streamVars, apiVars>>

InitHash ==
    /\ InitLease /\ dialect = "sqlite"
    /\ InitCmd /\ InitBroker /\ InitStream /\ InitApi /\ InitEnv
    /\ InitRepositories /\ InitDebug /\ InitVault /\ InitDownload
    /\ hashCheck \in [left : HashInputs, right : HashInputs,
                      done : {FALSE}, digests : {<<>>}]

SpecHash == InitHash /\ [][HashBoth]_vars

(***************************************************************************)
(* MetadataStore.upsert_repository (db/service.py) called by concurrent    *)
(* clients: the SELECT by name, then the INSERT or UPDATE at commit.  The  *)
(* name column is unique (db/models.py).                                   *)
(***************************************************************************)
RepositoryIds == 1..Len(repositories)

UpsertSelect(c, name, remote_url, default_branch) ==
    /\ upsertTxn[c].pc = "idle"
    /\ LET found == {i \in RepositoryIds : repositories[i].name = name}
           id == IF found = {} THEN NULL ELSE CHOOSE i \in found : TRUE
       IN upsertTxn' = [upsertTxn EXCEPT ![c] =
                          [pc |-> "committing", name |-> name,
                           remote_url |-> remote_url,
                           default_branch |-> default_branch,
                           id |-> id,
                           loaded |-> IF id = NULL THEN NULL
                                      ELSE repositories[id],
                           outcome |-> "none"]]
    /\ UNCHANGED <<repositories, lastUpsert>>
    /\ UNCHANGED <<envVars, hashCheck, debugVars, vaultVars,
                 downloadVars>>
    /\ UNCHANGED <<leaseVars, cmdVars, brokerVars, streamVars, apiVars>>

UpsertCommit(c) ==
    /\ upsertTxn[c].pc = "committing"
    /\ LET call == upsertTxn[c]
           assigned == [remote_url |-> call.remote_url,
                        default_branch |-> call.default_branch]
       IN IF call.id = NULL
          THEN IF \E i \in RepositoryIds : repositories[i].name = call.name
               THEN \* IntegrityError: UNIQUE constraint on name
                    /\ upsertTxn' = [upsertTxn EXCEPT ![c] =
                                       [NoUpsert EXCEPT !.outcome = "error",
                                                        !.name = call.name]]
                    /\ UNCHANGED <<repositories, lastUpsert>>
               ELSE /\ repositories' =
                         Append(repositories,
                                [name |-> call.name,
                                 remote_url |-> call.remote_url,
                                 default_branch |-> call.default_branch])
                    /\ lastUpsert' = [lastUpsert EXCEPT
                                         ![call.name] = assigned]
                    /\ upsertTxn' = [upsertTxn EXCEPT ![c] =
                                       [NoUpsert EXCEPT
                                          !.outcome = "created",
                                          !.name = call.name,
                                          !.id = Len(repositories) + 1]]
          ELSE /\ repositories' =
                    [repositories EXCEPT
                       ![call.id] = Flush(@, call.loaded, assigned)]
               /\ lastUpsert' = [lastUpsert EXCEPT ![call.name] = assigned]
               /\ upsertTxn' = [upsertTxn EXCEPT ![c] =
                                  [NoUpsert EXCEPT !.outcome = "updated",
                                                   !.name = call.name,
                                                   !.id = call.id]]
    /\ UNCHANGED <<envVars, hashCheck, debugVars, vaultVars,
                 downloadVars>>
    /\ UNCHANGED <<leaseVars, cmdVars, brokerVars, streamVars, apiVars>>

NextUpsert ==
    \/ \E c \in Clients, name \in RepoNames, remote_url \in RemoteUrls,
          default_branch \in Branches :
          UpsertSelect(c, name, remote_url, default_branch)
    \/ \E c \in Clients : UpsertCommit(c)

SpecUpsert == InitCmdSpec /\ [][NextUpsert]_vars

(***************************************************************************)
(* DebugpyAdapter.start (runner/debuggers/debugpy_adapter.py) with the     *)
(* tunnel manager (runner/debuggers/tunnel.py).  A request field that is   *)
(* None or empty is the empty string.  The store's update_debugger_state   *)
(* keeps one row per session and overwrites its last_event.                *)
(***************************************************************************)
UpdateDebuggerState(state, session_id, last_event) ==
    [state EXCEPT ![session_id] = last_event]

\* _build_argv raises ValueError.
BuildArgvRaises(module, script) == module = "" /\ script = ""

\* open_tunnel: registers the tunnel, writes "tunnel-created".
\* start: writes "tunnel-ready", builds argv, calls supervisor.run_command.
Start(session_id, module, script) ==
    /\ Len(supervisorCalls) < MaxLaunches
    /\ tunnels' = tunnels \cup {<<session_id, "debugpy">>}
    /\ debuggerState' =
          UpdateDebuggerState(
              UpdateDebuggerState(debuggerState, session_id,
                                  "tunnel-created"),
              session_id, "tunnel-ready")
    /\ IF BuildArgvRaises(module, script)
       THEN /\ supervisorCalls' = supervisorCalls
            /\ launch' = [turn |-> 1 - launch.turn,
                          session_id |-> session_id, module |-> module,
                          script |-> script, outcome |-> "ValueError"]
       ELSE /\ supervisorCalls' = Append(supervisorCalls, session_id)
            /\ launch' = [turn |-> 1 - launch.turn,
                          session_id |-> session_id, module |-> module,
                          script |-> script, outcome |-> "launched"]
    /\ UNCHANGED <<envVars, hashCheck, repoVars, vaultVars,
                 downloadVars>>
    /\ UNCHANGED <<leaseVars, cmdVars, brokerVars, streamVars, apiVars>>

CloseTunnel(session_id) ==
    /\ <<session_id, "debugpy">> \in tunnels
    /\ tunnels' = tunnels \ {<<session_id, "debugpy">>}
    /\ debuggerState' =
          UpdateDebuggerState(debuggerState, session_id, "tunnel-closed")
    /\ UNCHANGED <<supervisorCalls, launch>>
    /\ UNCHANGED <<envVars, hashCheck, repoVars, vaultVars,
                 downloadVars>>
    /\ UNCHANGED <<leaseVars, cmdVars, brokerVars, streamVars, apiVars>>

NextDebug ==
    \/ \E x \in Sessions, module \in LaunchTargets, script \in LaunchTargets :
          Start(x, module, script)
    \/ \E x \in Sessions : CloseTunnel(x)

SpecDebug == InitCmdSpec /\ [][NextDebug]_vars

(***************************************************************************)
(* EncryptedStateStore (client/cli/cloud.py).  The operator key is a       *)
(* sequence of characters, a payload a set of <<key, value>> pairs, its    *)
(* JSON text the sequence of those pairs.  A Fernet token is the pair of   *)
(* the key it was made with and the data: decrypting with another key      *)
(* raises InvalidToken.                                                    *)
(***************************************************************************)
\* bytes.ljust(width, fill)
RECURSIVE LJust(_, _, _)
LJust(raw, width, fill) ==
    IF Len(raw) >= width THEN raw ELSE LJust(raw \o <<fill>>, width, fill)

\* _cipher: the Fernet key made of the operator key.
CipherKey(raw) ==
    SubSeq(LJust(raw, FERNET_KEY_BYTES, "0"), 1, FERNET_KEY_BYTES)

\* json.dumps(payload): the entries in the order of the dict.
RECURSIVE JsonDumps(_)
JsonDumps(payload) ==
    IF payload = {} THEN <<>>
    ELSE LET first == CHOOSE e \in payload :
                          \A g \in payload \ {e} : e[1] # g[1]
         IN <<first>> \o JsonDumps(payload \ {first})

\* json.loads(text)
JsonLoads(text) == {text[i] : i \in DOMAIN text}

SetOperatorKey(raw) ==
    /\ operatorKey # raw
    /\ operatorKey' = raw
    /\ UNCHANGED <<stateFiles, savedWith, loadCall>>
    /\ UNCHANGED <<envVars, hashCheck, repoVars, debugVars, downloadVars>>
    /\ UNCHANGED <<leaseVars, cmdVars, brokerVars, streamVars, apiVars>>

\* save(name, payload); with no operator key _cipher raises UsageError.
Save(name, payload) ==
    /\ operatorKey # <<>>
    /\ stateFiles' = [stateFiles EXCEPT ![name] =
                         [key |-> CipherKey(operatorKey),
                          data |-> JsonDumps(payload)]]
    /\ savedWith' = [savedWith EXCEPT ![name] =
                        [payload |-> payload, key |-> operatorKey]]
    /\ UNCHANGED <<operatorKey, loadCall>>
    /\ UNCHANGED <<envVars, hashCheck, repoVars, debugVars, downloadVars>>
    /\ UNCHANGED <<leaseVars, cmdVars, brokerVars, streamVars, apiVars>>

Load(name) ==
    /\ loadCall' =
          [turn |-> 1 - loadCall.turn, name |-> name,
           outcome |-> IF stateFiles[name] = NoFile THEN "no-state"
                       ELSE IF operatorKey = <<>> THEN "no-key"
                       ELSE IF CipherKey(operatorKey) # stateFiles[name].key
                            THEN "decrypt-error"
                       ELSE "ok",
           payload |-> IF /\ stateFiles[name] # NoFile
                          /\ operatorKey # <<>>
                          /\ CipherKey(operatorKey) = stateFiles[name].key
                       THEN JsonLoads(stateFiles[name].data)
                       ELSE {}]
    /\ UNCHANGED <<operatorKey, stateFiles, savedWith>>
    /\ UNCHANGED <<envVars, hashCheck, repoVars, debugVars, downloadVars>>
    /\ UNCHANGED <<leaseVars, cmdVars, brokerVars, streamVars, apiVars>>

NextVault ==
    \/ \E raw \in OperatorKeys \cup {<<>>} : SetOperatorKey(raw)
    \/ \E name \in StackNames, payload \in StatePayloads : Save(name, payload)
    \/ \E name \in StackNames : Load(name)

SpecVault == InitCmdSpec /\ [][NextVault]_vars

(***************************************************************************)
(* GET /sessions/{id}/artifacts/{aid} with its BearerTokenAuth dependency  *)
(* (api/routers/sessions.py).  An artifact's id is its index in the        *)
(* artifacts table; a served file is named by its path.                    *)
(***************************************************************************)
DownloadScopes == {"artifacts:read", "sessions:read"}
DownloadScopeSets == {{"sessions:read"}, {"sessions:read", "artifacts:read"}}

\* MetadataStore.get_session(session_id): the row of that id, or None.
GetSession(session_id) ==
    IF session_id \in DOMAIN sessions /\ sessions[session_id].status # "NONE"
    THEN sessions[session_id] ELSE NoSession

\* MetadataStore.get_artifact(artifact_id): the row of that id, or None.
GetArtifact(artifact_id) ==
    IF artifact_id \in DOMAIN artifacts
    THEN artifacts[artifact_id]
    ELSE [session_id |-> NULL, command_id |-> NULL, kind |-> "NONE",
          path |-> NULL]

\* MetadataStore.record_artifact(session_id, kind, path): SQLite does not
\* check the foreign key.
StoreRecordArtifact(session_id, path) ==
    /\ Len(artifacts) < MaxArtifacts
    /\ artifacts' = Append(artifacts,
                           [session_id |-> session_id, command_id |-> NULL,
                            kind |-> "custom", path |-> path])
    /\ UNCHANGED <<commands, supSeq, rpc, run, storeCalls>>
    /\ UNCHANGED <<leaseVars, toolVars, brokerVars, streamVars, apiVars>>

\* The execution plane writes the file of an artifact, or a cleanup
\* removes it.
WriteArtifactFile(path) ==
    /\ path \notin artifactFiles
    /\ artifactFiles' = artifactFiles \cup {path}
    /\ UNCHANGED <<download, envVars, hashCheck, repoVars, debugVars, vaultVars>>
    /\ UNCHANGED <<leaseVars, cmdVars, brokerVars, streamVars, apiVars>>

RemoveArtifactFile(path) ==
    /\ path \in artifactFiles
    /\ artifactFiles' = artifactFiles \ {path}
    /\ UNCHANGED <<download, envVars, hashCheck, repoVars, debugVars, vaultVars>>
    /\ UNCHANGED <<leaseVars, cmdVars, brokerVars, streamVars, apiVars>>

Response(session_id, artifact_id, status, detail, file) ==
    [turn |-> 1 - download.turn, session_id |-> session_id,
     artifact_id |-> artifact_id, status |-> status, detail |-> detail,
     file |-> file]

DownloadArtifactOfAnySession(header, session_id, artifact_id) ==
    /\ LET denied == BearerTokenAuth(header, DownloadScopes)
           artifact == GetArtifact(artifact_id)
       IN download' =
            IF denied # NULL
            THEN Response(session_id, artifact_id, denied, "denied", NULL)
            ELSE IF GetSession(session_id) = NoSession
            THEN Response(session_id, artifact_id, HTTP_404_NOT_FOUND,
                          "Session not found", NULL)
            ELSE IF artifact.kind = "NONE"
            THEN Response(session_id, artifact_id, HTTP_404_NOT_FOUND,
                          "Artifact not found", NULL)
            ELSE IF artifact.path \notin artifactFiles
            THEN Response(session_id, artifact_id, HTTP_404_NOT_FOUND,
                          "Artifact file missing", NULL)
            ELSE Response(session_id, artifact_id, HTTP_200_OK, "none",
                          artifact.path)
    /\ tokens' = AfterAuthenticate(header)
    /\ UNCHANGED <<sessions, request, scopeCheck, artifactFiles>>
    /\ UNCHANGED <<envVars, hashCheck, repoVars, debugVars, vaultVars>>
    /\ UNCHANGED <<leaseVars, cmdVars, brokerVars, streamVars>>

\* download_artifact: the dependency, 404 for an unknown session, 404 for
\* an unknown artifact or one of another session, 404 for a missing file,
\* otherwise the file at the artifact's path.
DownloadArtifact(header, session_id, artifact_id) ==
    /\ LET denied == BearerTokenAuth(header, DownloadScopes)
           artifact == GetArtifact(artifact_id)
       IN download' =
            IF denied # NULL
            THEN Response(session_id, artifact_id, denied, "denied", NULL)
            ELSE IF GetSession(session_id) = NoSession
            THEN Response(session_id, artifact_id, HTTP_404_NOT_FOUND,
                          "Session not found", NULL)
            ELSE IF artifact.kind = "NONE" \/ artifact.session_id # session_id
            THEN Response(session_id, artifact_id, HTTP_404_NOT_FOUND,
                          "Artifact not found", NULL)
            ELSE IF artifact.path \notin artifactFiles
            THEN Response(session_id, artifact_id, HTTP_404_NOT_FOUND,
                          "Artifact file missing", NULL)
            ELSE Response(session_id, artifact_id, HTTP_200_OK, "none",
                          artifact.path)
    /\ tokens' = AfterAuthenticate(header)
    /\ UNCHANGED <<sessions, request, scopeCheck, artifactFiles>>
    /\ UNCHANGED <<envVars, hashCheck, repoVars, debugVars, vaultVars>>
    /\ UNCHANGED <<leaseVars, cmdVars, brokerVars, streamVars>>

NextDownload ==
    \/ \E scopes \in DownloadScopeSets : CreateToken("ops", scopes, NULL)
    \/ \E x \in Sessions : CreateSession(x)
    \/ \E x \in Sessions, path \in ArtifactPaths : StoreRecordArtifact(x, path)
    \/ \E path \in ArtifactPaths : WriteArtifactFile(path)
    \/ \E path \in ArtifactPaths : RemoveArtifactFile(path)
    \/ \E header \in {NULL, 1}, x \in Sessions, a \in 1..MaxArtifacts :
          DownloadArtifact(header, x, a)

SpecDownload == InitCmdSpec /\ [][NextDownload]_vars

(***************************************************************************)
(* Claims about the lease state machine, checked under Spec.               *)
(***************************************************************************)
Expired(row, t) == row.lease_expires_at # NULL /\ row.lease_expires_at < t

ReserveReturned(p) == lease[p].wid = NULL /\ lease'[p].wid # NULL

ReserveRaised(p) ==
    \/ pc[p] = "idle" /\ pc'[p] = "no_worktree"
    \/ pc[p] = "retry" /\ pc'[p] = "idle"

\* C1: concurrent reserve_worktree calls never both succeed on one row: two
\* callers hold a LeaseResult for the same row only when one lease was
\* reserved after the other had expired, never with overlapping lifetimes.
C1_AtMostOneReserverPerRow ==
    \A p, q \in Callers :
        (p # q /\ lease[p].wid # NULL /\ lease[p].wid = lease[q].wid)
        => \/ lease[p].lease_expires_at < lease[q].leased_at
           \/ lease[q].lease_expires_at < lease[p].leased_at

\* C2: while a command runs in a worktree under a lease, no other caller
\* holds a lease on that worktree and works in its directory, also after the
\* first lease's TTL.  Stated for the engine that takes the row lock, where
\* concurrent reservations of one row (C1) cannot happen.
C2_OneOperatorPerWorktree ==
    dialect = "postgresql" =>
        \A p, q \in Callers :
            (p # q /\ pc[p] = "running") => ~Operating(q, lease[p].wid)

\* C3: release_worktree succeeds iff its token is the token stored on the row
\* when it releases, and then leaves the row IDLE with the lease fields null;
\* on a mismatch it fails and leaves the table unchanged.  Stated for the
\* engine that takes the row lock, where two reservations of one row cannot
\* overlap (C1).
C3_ReleaseIffTokenMatches ==
    [][\A p \in Callers :
         /\ (dialect = "postgresql" /\ pc[p] = "releasing" /\ pc'[p] = "idle") =>
               LET w == txn[p].wid
               IN /\ worktrees[w].lease_token = lease[p].lease_token
                  /\ worktrees'[w].status = "IDLE"
                  /\ worktrees'[w].lease_owner = NULL
                  /\ worktrees'[w].lease_token = NULL
                  /\ worktrees'[w].leased_at = NULL
                  /\ worktrees'[w].lease_expires_at = NULL
         /\ (pc[p] = "cleaning" /\ pc'[p] = "idle") =>
               /\ worktrees[lease[p].wid].lease_token # lease[p].lease_token
               /\ worktrees' = worktrees]_vars

\* C4: a worktree row has a lease token iff its status is not IDLE.
C4_TokenIffNotIdle ==
    \A w \in WorktreeIds :
        (worktrees[w].lease_token # NULL) <=> (worktrees[w].status # "IDLE")

\* C5: reserve_worktree hands out a row only if the row is IDLE or its lease
\* has expired: a row holding an unexpired lease is never handed out.
C5_ReservedOnlyIdleOrExpired ==
    [][\A p \in Callers :
         ReserveReturned(p) =>
             LET row == worktrees[lease'[p].wid]
             IN row.status = "IDLE" \/ Expired(row, now)]_vars

\* C6: a lease that is never released stops blocking its row once its TTL has
\* elapsed: reserve_worktree does not raise while an expired, unlocked row of
\* the repository exists, it picks that row when no other row matches, and
\* reserving an expired row stores a fresh token and a new expiry on it.
C6_ExpiredLeaseReclaimable ==
    [][\A p \in Callers :
         LET stale == {w \in WorktreeIds :
                          /\ worktrees[w].repository_id = PoolRepository
                          /\ Expired(worktrees[w], now)
                          /\ ~LockedByOther(w, p)}
             idle == {w \in WorktreeIds :
                          /\ worktrees[w].status = "IDLE"
                          /\ ~Expired(worktrees[w], now)}
         IN /\ ReserveRaised(p) => stale = {}
            /\ (pc[p] \in {"idle", "retry"} /\ pc'[p] = "reserving"
                  /\ stale # {} /\ idle = {}) => txn'[p].wid \in stale
            /\ ReserveReturned(p) =>
                  LET w == lease'[p].wid
                  IN (worktrees[w].status # "IDLE" /\ Expired(worktrees[w], now))
                     => /\ worktrees'[w].lease_token = lease'[p].lease_token
                        /\ worktrees'[w].lease_token # worktrees[w].lease_token
                        /\ worktrees'[w].status # "IDLE"
                        /\ worktrees'[w].lease_expires_at
                              = lease'[p].leased_at + LeaseTtl
                        /\ ~Expired(worktrees'[w], lease'[p].leased_at)]_vars

\* C6 witness: p holds the row's current lease, reserved after q's lease on
\* the same row expired, while q is still running and never released.
C6_Witness ==
    \E p, q \in Callers :
        /\ p # q
        /\ pc[q] = "running"
        /\ lease[p].wid # NULL
        /\ lease[p].wid = lease[q].wid
        /\ lease[q].lease_expires_at < lease[p].leased_at
        /\ lease[p].lease_token # lease[q].lease_token
        /\ worktrees[lease[p].wid].lease_token = lease[p].lease_token

\* C7: every write to a worktree row raises its version, so a write computed
\* from a stale read never replaces a newer row.  Stated for the engine that
\* takes the row lock.
C7_VersionStrictlyIncreases ==
    [][\A w \in WorktreeIds :
         (dialect = "postgresql" /\ worktrees'[w] # worktrees[w])
         => worktrees'[w].version > worktrees[w].version]_vars

(***************************************************************************)
(* Claims about command rows, checked under SpecSup (C8, C9) and SpecCmd.  *)
(***************************************************************************)
\* C8: within a session the sequence values of the command rows are strictly
\* increasing in creation order (so pairwise distinct) and start at 0.
C8_SequenceStrictlyIncreasing ==
    \A c \in CommandIds :
        LET earlier == {b \in SessionCommands(commands[c].session_id) : b < c}
        IN /\ earlier = {} => commands[c].sequence = 0
           /\ \A b \in earlier : commands[b].sequence < commands[c].sequence

\* C9: run_command calls for one session never overlap: no two threads have a
\* spawned process each, with both command rows of the session RUNNING.
C9_OneRunningCommandPerSession ==
    \A t, u \in Threads :
        (t # u /\ rpc[t] = "spawning" /\ rpc[u] = "spawning"
             /\ run[t].session_id = run[u].session_id)
        => ~(/\ commands[run[t].cid].status = "RUNNING"
             /\ commands[run[u].cid].status = "RUNNING")

\* C10: a command row's status only moves PENDING -> RUNNING -> one of
\* SUCCEEDED, FAILED, CANCELLED; a terminal status never changes again.
C10_CommandStatusOrder ==
    [][\A c \in CommandIds :
         commands'[c].status # commands[c].status
         => \/ commands[c].status = "PENDING" /\ commands'[c].status = "RUNNING"
            \/ /\ commands[c].status = "RUNNING"
               /\ commands'[c].status \in TerminalStatuses]_vars

\* C11: a SUCCEEDED command row has exit_code 0, a CANCELLED row has none;
\* when run_command has recorded its result, a timeout left the row CANCELLED
\* without exit code, a spawn failure left it FAILED without exit code, and an
\* exit left it SUCCEEDED with code 0 or FAILED with the non-zero code.
C11_ExitCodeMatchesStatus ==
    /\ \A c \in CommandIds :
          /\ commands[c].status = "SUCCEEDED" => commands[c].exit_code = 0
          /\ commands[c].status = "CANCELLED" => commands[c].exit_code = NULL
    /\ \A t \in Threads :
          rpc[t] = "recorded" =>
             LET row == commands[run[t].cid]
             IN /\ run[t].outcome = "timeout" =>
                      row.status = "CANCELLED" /\ row.exit_code = NULL
                /\ run[t].outcome = "spawn_failed" =>
                      row.status = "FAILED" /\ row.exit_code = NULL
                /\ run[t].outcome = "exited" =>
                      /\ row.exit_code = run[t].exit_code
                      /\ row.status = IF row.exit_code = 0
                                      THEN "SUCCEEDED" ELSE "FAILED"

\* C11 witness: one run_command has just recorded a non-zero exit and another
\* a timeout.
C11_Witness ==
    \E t, u \in Threads :
        /\ rpc[t] = "recorded" /\ run[t].outcome = "exited"
        /\ commands[run[t].cid].status = "FAILED"
        /\ commands[run[t].cid].exit_code = 1
        /\ rpc[u] = "recorded" /\ run[u].outcome = "timeout"
        /\ commands[run[u].cid].status = "CANCELLED"

C13_PatchFailureLeavesStoreUnchanged ==
    [][\A t \in Threads :
         (rpc'[t] # rpc[t] /\ "patch_failed" \in {rpc[t], rpc'[t]}) =>
             /\ commands' = commands
             /\ artifacts' = artifacts
             /\ supSeq' = supSeq
             /\ rpc'[t] = "patch_failed" =>
                   run'[t].outcome = "PatchApplicationError"
             /\ rpc[t] = "patch_failed" => rpc'[t] = "idle"]_vars

\* C13 witness: a patch failed for a session that has one command already;
\* the supervisor's counter still stands at its next number.
C13_Witness ==
    \E t \in Threads :
        /\ rpc[t] = "patch_failed"
        /\ run[t].outcome = "PatchApplicationError"
        /\ Cardinality(SessionCommands(run[t].session_id)) = 1
        /\ supSeq[run[t].sup][run[t].session_id] = 1

\* C14: a command run with a finite timeout reaches a terminal state: once the
\* timeout has elapsed and the process was killed, run_command gets to record
\* the command CANCELLED without exit code; the row does not stay RUNNING.
C14_TimeoutCommandTerminates ==
    \A t \in Threads :
        (rpc[t] = "joining" /\ run[t].outcome = "timeout")
        ~> (/\ rpc[t] = "recorded"
            /\ commands[run[t].cid].status = "CANCELLED"
            /\ commands[run[t].cid].exit_code = NULL)

(***************************************************************************)
(* Claims about the stream brokers, checked under SpecBroker,              *)
(* SpecBrokerFair (C19) and SpecCancel (C20).                              *)
(***************************************************************************)
\* The live events handler h has taken or still has queued, in queue order.
Live(h) ==
    SubSeq(ws[h].sent, Len(ws[h].snapshot) + 1, Len(ws[h].sent))
        \o SelectSeq(queue[h], LAMBDA e : e # NULL)

\* No publish is in progress and no callback is scheduled.
Quiet ==
    /\ loopCalls = <<>>
    /\ \A t \in Publishers : pub[t].pc = "idle"

\* C15: a subscriber receives the history captured when it joined followed by
\* every event published after the capture, each once and in publish order:
\* when nothing is in flight, what a connected handler has sent is the
\* session's history.
C15_NoEventLostOnJoin ==
    \A h \in Handlers :
        (Quiet /\ ws[h].pc = "waiting" /\ ws[h].connected /\ queue[h] = <<>>)
        => ws[h].sent = history[ws[h].broker]

C17_HistoryBounded ==
    \A k \in Brokers : Len(history[k]) <= HistoryLimit

\* C18: a subscriber's queue never holds more events than the high-water
\* mark.
C18_QueueBounded ==
    \A h \in Handlers : Len(queue[h]) <= QueueHighWater

\* C19: once the client of a WebSocket has disconnected, its handler ends and
\* its queue is no longer in the subscriber list, whether or not another event
\* is ever published.  Stated for the log endpoint.
C19_DisconnectUnsubscribes ==
    \A h \in Handlers :
        (ws[h].broker = "logs" /\ ~ws[h].connected)
        ~> (ws[h].pc = "done" /\ ~Subscribed(h))

\* C20: once the session is cancelled, every log WebSocket of the session is
\* closed by the server: its handler's loop ends.
C20_CancelClosesLogSockets ==
    (sessionStatus = "CANCELLED")
    ~> (\A h \in Handlers : ws[h].broker = "logs" => ws[h].pc = "done")

(***************************************************************************)
(* Claims about LogStream, checked under SpecStream.                       *)
(***************************************************************************)
\* The chunks among the items of a queue, in queue order.
Chunks(q) == SelectSeq(q, LAMBDA item : item # SENTINEL)

\* The chunks written while a registration stood: after it was made and up
\* to its removal or the stream's close.
Window(reg) ==
    (reg.regAt + 1)..(IF reg.remAt = NULL THEN Len(logFile) ELSE reg.remAt)

\* The chunks a write in progress has still to hand to subscription s, and to
\* listener l.
QueueInFlight(s) ==
    {writer[w].chunk : w \in {v \in StreamWriters :
                                 /\ writer[v].pc = "notifying"
                                 /\ Contains(writer[v].queues, s)}}

ListenerInFlight(l) ==
    {writer[w].chunk : w \in {v \in StreamWriters :
                                 /\ writer[v].pc = "notifying"
                                 /\ Contains(writer[v].listeners, l)}}

Delivered(got, inFlight, reg) ==
    /\ Range(got) \cup inFlight = Window(reg)
    /\ Range(got) \cap inFlight = {}
    /\ Cardinality(Range(got)) = Len(got)

C22_EmissionOrder ==
    /\ \A s \in Followers :
          LET got == Chunks(subQueue[s])
          IN \A i, j \in 1..Len(got) : i < j => got[i] < got[j]
    /\ \A l \in ListenerIds :
          \A i, j \in 1..Len(received[l]) :
              i < j => received[l][i] < received[l][j]

\* C23: the stream's close gives every subscription live at close one
\* sentinel; no queue ever holds two sentinels, and a sentinel is the last
\* item ever placed in its queue.
C23_SentinelIsLast ==
    \A s \in Followers :
        LET q == subQueue[s]
        IN /\ Cardinality({i \in 1..Len(q) : q[i] = SENTINEL}) <= 1
           /\ \A i \in 1..Len(q) : q[i] = SENTINEL => i = Len(q)
           /\ (handleClosed /\ follower[s].remAt # NULL
                  /\ follower[s].state = "live")
                 => Contains(q, SENTINEL)

(***************************************************************************)
(* Claims about session rows, checked under SpecSession.                   *)
(***************************************************************************)
\* C24: a session's status only moves PENDING -> RUNNING -> one of COMPLETED,
\* FAILED, CANCELLED, or PENDING -> CANCELLED; a session that is COMPLETED,
\* FAILED or CANCELLED keeps its status, whatever is called.
C24_SessionStatusOrder ==
    [][\A x \in Sessions :
         sessions'[x].status # sessions[x].status
         => \/ sessions[x].status = "NONE" /\ sessions'[x].status = "PENDING"
            \/ sessions[x].status = "PENDING"
                  /\ sessions'[x].status \in {"RUNNING", "CANCELLED"}
            \/ sessions[x].status = "RUNNING"
                  /\ sessions'[x].status \in {"COMPLETED", "FAILED", "CANCELLED"}]_vars

(***************************************************************************)
(* Claims about bearer tokens, checked under SpecToken.                    *)
(***************************************************************************)
\* A token that is neither revoked nor expired at t.
ValidToken(row, t) ==
    /\ row.revoked_at = NULL
    /\ row.expires_at = NULL \/ row.expires_at > t

\* C25: authenticate(raw) returns the token record iff a token whose stored
\* hash is the SHA-256 of raw exists, is not revoked and is not expired; it
\* then sets last_used_at to its now and changes nothing else; otherwise it
\* returns null and leaves the table unchanged.  A token that is revoked or
\* expired stays so, and so never authenticates again.
C25_AuthenticateIffValid ==
    [][/\ \A c \in Clients :
            /\ (request[c].pc \in {"idle", "done"} /\ request'[c] # request[c]) =>
                  LET raw == request'[c].raw
                      good == {i \in TokenIds :
                                  /\ tokens[i].token_hash = Sha256(raw)
                                  /\ ValidToken(tokens[i], now)}
                  IN /\ request'[c].tid # NULL <=> good # {}
                     /\ request'[c].tid # NULL =>
                           /\ request'[c].tid \in good
                           /\ request'[c].pc = "committing"
                           /\ request'[c].at = now
                     /\ request'[c].tid = NULL => request'[c].pc = "done"
                     /\ tokens' = tokens
            /\ (request[c].pc = "committing" /\ request'[c].pc = "done") =>
                  /\ tokens'[request[c].tid].last_used_at = request[c].at
                  /\ \A i \in TokenIds :
                        [tokens'[i] EXCEPT !.last_used_at = NULL]
                           = [tokens[i] EXCEPT !.last_used_at = NULL]
                  /\ \A i \in TokenIds \ {request[c].tid} : tokens'[i] = tokens[i]
       /\ \A i \in TokenIds :
            ~ValidToken(tokens[i], now) => ~ValidToken(tokens'[i], now')]_vars

\* C25 witness: one client was handed a token's record, last_used_at bumped
\* to that call's now; the token was then revoked and the same secret got a
\* second client nothing.
C25_Witness ==
    \E c, d \in Clients :
        /\ request[c].pc = "done" /\ request[c].tid # NULL
        /\ tokens[request[c].tid].last_used_at = request[c].at
        /\ tokens[request[c].tid].revoked_at # NULL
        /\ request[d].pc = "done" /\ request[d].tid = NULL
        /\ request[d].raw = request[c].raw
        /\ request[d].at >= tokens[request[c].tid].revoked_at

(***************************************************************************)
(* Claims about scopes and the request surface, checked under SpecScopes   *)
(* (C26), SpecHttp (C27) and SpecWs (C28).                                 *)
(***************************************************************************)
\* C26: the scope check is true iff admin is among the token's scopes or
\* every required scope is, for every token scope set and every required
\* set; the dependency answers 403 exactly when scopes are required and the
\* check is false, so an admin token passes every check.
C26_ScopeCheck ==
    scopeCheck.result # "none" =>
        LET holds == \/ "admin" \in scopeCheck.token_scopes
                     \/ \A r \in scopeCheck.required :
                           r \in scopeCheck.token_scopes
        IN /\ scopeCheck.result = "granted" <=> holds
           /\ scopeCheck.status = HTTP_403_FORBIDDEN <=> ~holds
           /\ "admin" \in scopeCheck.token_scopes =>
                 scopeCheck.result = "granted" /\ scopeCheck.status = NULL

\* C26 witness: a check granted to a token without admin that holds the two
\* required scopes and one more.
C26_Witness ==
    /\ scopeCheck.result = "granted"
    /\ "admin" \notin scopeCheck.token_scopes
    /\ Cardinality(scopeCheck.required) = 2
    /\ Cardinality(scopeCheck.token_scopes) = 3

\* C27: POST /sessions/{id}/commands with a valid token is rejected with 403
\* iff the token holds none of commands:write, sessions:write and admin:
\* either of the two scopes suffices.
C27_EitherScopeSuffices ==
    \A c \in Clients :
        (request[c].endpoint = "queue_command" /\ request[c].tid # NULL)
        => LET held == tokens[request[c].tid].scopes
           IN request[c].status = HTTP_403_FORBIDDEN
                 <=> held \cap {"commands:write", "sessions:write", "admin"} = {}

\* The scopes the guard of endpoint k asks for, held by a token.
Sufficient(held, k) ==
    \/ "admin" \in held
    \/ k = "logs" /\ "sessions:read" \in held /\ "artifacts:read" \in held
    \/ k = "debug" /\ "sessions:write" \in held

\* The upgrade of handler h came with a token that authenticated with the
\* required scopes, for a session that exists.
Entitled(h) ==
    /\ request[h].tid # NULL
    /\ Sufficient(tokens[request[h].tid].scopes, request[h].endpoint)
    /\ sessions[request[h].session].status # "NONE"

\* C28: a WebSocket connection is accepted, anything sent and a broker
\* subscription registered only after the bearer token authenticated with
\* the required scopes and the session exists; otherwise the connection is
\* closed with 1008 before accept, nothing is sent and no subscription is
\* ever registered.
C28_UpgradeGuard ==
    \A h \in Handlers :
        /\ (ws[h].pc \notin {"new", "closed"} \/ Subscribed(h)
               \/ ws[h].sent # <<>> \/ queue[h] # <<>>)
              => Entitled(h) /\ request[h].status = NULL
        /\ (request[h].pc = "done" /\ ~Entitled(h))
              => /\ request[h].status = WS_1008_POLICY_VIOLATION
                 /\ ws[h].pc = "closed"
                 /\ ws[h].sent = <<>>
                 /\ ~Subscribed(h)

\* C28 witness: one upgrade was refused for want of scope while the session
\* has history, and another was accepted, replayed and subscribed.
C28_Witness ==
    \E h, g \in Handlers :
        /\ request[h].status = WS_1008_POLICY_VIOLATION
        /\ request[h].tid # NULL
        /\ sessions[request[h].session].status # "NONE"
        /\ history[request[h].endpoint] # <<>>
        /\ ws[h].pc = "closed"
        /\ Subscribed(g)
        /\ ws[g].sent # <<>>

\* The acquire of caller p returned its WorktreeLease.
Acquired(p) == pc[p] \in {"ready", "running", "cleaning", "releasing"}

\* C29: the lease acquire_worktree returns has needs_dependency_sync true
\* iff the environment_hash stored on the reserved worktree before the
\* acquire differs from the requested one, and false when the two are
\* equal, for every combination of stored and requested value, null
\* included.
C29_NeedsSyncIffHashDiffers ==
    \A p \in Callers :
        Acquired(p) =>
            lease[p].needs_dependency_sync
                <=> lease[p].stored_environment_hash
                        # lease[p].environment_hash

\* C30: the worktree rows of the pool's repository never outnumber
\* max_worktrees, whatever the interleaving of concurrent acquires.
C30_CapacityRespected ==
    Cardinality({w \in WorktreeIds :
                    worktrees[w].repository_id = PoolRepository})
        <= MaxWorktrees

(***************************************************************************)
(* Claims about the failure path of acquire, release with a stale lease    *)
(* (checked under Spec) and reclaim_stale_worktrees (checked under         *)
(* SpecReclaim).                                                           *)
(***************************************************************************)
\* C31: when acquire_worktree fails after the row was reserved, the
\* reservation is released on that exit path: the row is back to IDLE with
\* no lease token when the error reaches the caller.
C31_FailedAcquireReleases ==
    [][\A p \in Callers :
          (pc[p] = "leased" /\ pc'[p] = "idle")
              => /\ worktrees'[lease[p].wid].status = "IDLE"
                 /\ worktrees'[lease[p].wid].lease_token = NULL]_vars

\* Reclaim removes the directory of the row at the head of its listing.
RemovesDirectory ==
    /\ reclaim.pc = "scanning" /\ reclaim'.pc = "updating"
    /\ Head(reclaim.listed).wid \in dirs

\* Reclaim writes the metadata of the row at the head of its listing.
NullsMetadata == reclaim.pc = "updating" /\ reclaim'.pc = "scanning"

ReclaimTarget == Head(reclaim.listed).wid

\* C32: reclaim_stale_worktrees acts only on worktrees that are IDLE and at
\* least max_idle_age old; it deletes their directory and nulls commit_sha
\* and environment_hash, deletes no row, changes no status or lease field
\* and leaves every other worktree and directory untouched.
C32_ReclaimOnlyStaleIdle ==
    [][/\ (RemovesDirectory \/ NullsMetadata)
            => /\ worktrees[ReclaimTarget].status = "IDLE"
               /\ worktrees[ReclaimTarget].updated_at + reclaim.max_idle_age
                      <= reclaim.now
               /\ Len(worktrees') = Len(worktrees)
               /\ \A w \in WorktreeIds \ {ReclaimTarget} :
                      /\ worktrees'[w] = worktrees[w]
                      /\ (w \in dirs') <=> (w \in dirs)
       /\ RemovesDirectory => ReclaimTarget \notin dirs'
       /\ NullsMetadata
            => LET old == worktrees[ReclaimTarget]
                   new == worktrees'[ReclaimTarget]
               IN /\ new.commit_sha = NULL /\ new.environment_hash = NULL
                  /\ new.status = old.status
                  /\ new.lease_owner = old.lease_owner
                  /\ new.lease_token = old.lease_token
                  /\ new.leased_at = old.leased_at
                  /\ new.lease_expires_at = old.lease_expires_at]_vars

\* C38: reclaim_stale_worktrees running beside acquire_worktree never
\* deletes the directory nor nulls the metadata of a worktree that is
\* reserved at the moment of the deletion or the update.
C38_ReclaimNeverHitsReserved ==
    [][(RemovesDirectory \/ NullsMetadata)
          => worktrees[ReclaimTarget].status # "RESERVED"]_vars

\* The lease of caller p expired and its row was reserved again after that.
Superseded(p) ==
    /\ worktrees[lease[p].wid].lease_token # lease[p].lease_token
    /\ worktrees[lease[p].wid].status = "RESERVED"
    /\ worktrees[lease[p].wid].leased_at > lease[p].lease_expires_at

\* C39: release called with a lease whose token no longer matches the row
\* (the lease expired and the worktree was reserved again by another owner)
\* performs no git reset/clean in the directory.
C39_StaleReleaseTouchesNothing ==
    [][\A p \in Callers :
          (pc[p] = "ready" /\ pc'[p] = "cleaning") => ~Superseded(p)]_vars

(***************************************************************************)
(* Claims about the environment manager, checked under SpecEnv.            *)
(***************************************************************************)
\* C33: ensure rebuilds the environment iff force is set, the directory
\* does not exist or the request's fingerprint differs from the one cached
\* for the name (having one against having none is a difference);
\* otherwise the directory is left untouched; and the second of two
\* consecutive calls with the same inputs and no force never rebuilds.
C33_RebuildIffChanged ==
    [][ensureCall'.turn # ensureCall.turn
          => LET call == ensureCall'
             IN /\ call.rebuilt
                     <=> \/ call.force
                         \/ ~call.existed
                         \/ call.cached # call.fingerprint
                /\ ~call.rebuilt => envDirs' = envDirs
                /\ (/\ call.name = ensureCall.name
                    /\ call.fingerprint = ensureCall.fingerprint
                    /\ ~call.force) => ~call.rebuilt]_vars

(***************************************************************************)
(* Claims about the dependency hasher, checked under SpecHash.             *)
(***************************************************************************)
\* The (basename, bytes, mtime) entries of an input.
Entries(input) == {input.manifests[i] : i \in DOMAIN input.manifests}

\* C37: compute_dependency_hash gives two inputs the same digest iff their
\* (basename, bytes, mtime) entries and their metadata maps are equal: the
\* order of the manifest list does not matter, and inputs that differ in a
\* name, content, mtime or metadata entry never feed the same bytes.
C37_SameDigestIffSameInput ==
    hashCheck.done
        => (hashCheck.digests[1] = hashCheck.digests[2]
               <=> /\ Entries(hashCheck.left) = Entries(hashCheck.right)
                   /\ hashCheck.left.extra_inputs
                          = hashCheck.right.extra_inputs)

(***************************************************************************)
(* Claims about the repositories table, checked under SpecUpsert.          *)
(***************************************************************************)
\* C34: after any interleaving of upsert_repository calls there is one row
\* per name, a row keeps the id and name it was created with, and its
\* fields are those of the last call that succeeded for its name.
C34_UpsertIdempotent ==
    /\ \A i, j \in RepositoryIds :
           repositories[i].name = repositories[j].name => i = j
    /\ \A i \in RepositoryIds :
           LET last == lastUpsert[repositories[i].name]
           IN /\ repositories[i].remote_url = last.remote_url
              /\ repositories[i].default_branch = last.default_branch

(***************************************************************************)
(* Claims about the debugger adapters, checked under SpecDebug.            *)
(***************************************************************************)
\* C35: DebugpyAdapter.start with neither module nor script fails and the
\* rejected launch is not recorded: no tunnel is registered, the session's
\* debugger state is neither created nor updated, and the supervisor is
\* not invoked.
C35_RejectedLaunchLeavesNothing ==
    [][(/\ launch'.turn # launch.turn
        /\ launch'.module = "" /\ launch'.script = "")
          => /\ launch'.outcome = "ValueError"
             /\ tunnels' = tunnels
             /\ debuggerState' = debuggerState
             /\ supervisorCalls' = supervisorCalls]_vars

(***************************************************************************)
(* Claims about the encrypted state store, checked under SpecVault.        *)
(***************************************************************************)
\* C36: load(name) after save(name, payload) returns a dict equal to
\* payload when the operator key is the one used at save time, and fails,
\* returning no data, whenever the operator key differs from it.
C36_LoadNeedsTheSameKey ==
    [][(loadCall'.turn # loadCall.turn /\ savedWith[loadCall'.name] # NoSave)
          => IF operatorKey = savedWith[loadCall'.name].key
             THEN /\ loadCall'.outcome = "ok"
                  /\ loadCall'.payload = savedWith[loadCall'.name].payload
             ELSE /\ loadCall'.outcome # "ok"
                  /\ loadCall'.payload = {}]_vars

(***************************************************************************)
(* Claims about the artifact download, checked under SpecDownload.         *)
(***************************************************************************)
\* C40: GET /sessions/{id}/artifacts/{aid} returns an artifact's file only
\* when the artifact row belongs to session {id}: a response that carries a
\* file carries the file of an artifact row of that session, and an
\* authorised request for an artifact of another session is answered 404
\* without file content.
C40_ArtifactOnlyOfItsSession ==
    [][download'.turn # download.turn
          => LET a == download'.artifact_id
                 x == download'.session_id
             IN /\ download'.file # NULL
                     => /\ a \in DOMAIN artifacts
                        /\ artifacts[a].session_id = x
                        /\ artifacts[a].path = download'.file
                /\ (a \in DOMAIN artifacts /\ artifacts[a].session_id # x)
                     => /\ download'.file = NULL
                        /\ download'.status \in
                              {HTTP_401_UNAUTHORIZED, HTTP_403_FORBIDDEN,
                               HTTP_404_NOT_FOUND}
                        /\ download'.detail # "denied"
                             => download'.status = HTTP_404_NOT_FOUND]_vars

\* An authorised request for an existing session and an artifact of another
\* session, whose file is on disk, was answered "Artifact not found".
C40_ForeignArtifactRefused ==
    /\ download.status = HTTP_404_NOT_FOUND
    /\ download.detail = "Artifact not found"
    /\ download.artifact_id \in DOMAIN artifacts
    /\ artifacts[download.artifact_id].session_id # download.session_id
    /\ artifacts[download.artifact_id].path \in artifactFiles
    /\ \E b \in DOMAIN artifacts :
          artifacts[b].session_id = download.session_id

====
